---- MODULE Spec2Model ----
(***************************************************************************)
(* Model of amharic-name-search: the transliteration cache, the lazily     *)
(* built dictionary trie, and the operations transliterateToAmharic,       *)
(* matchesName, expandSearchQuery and clearCache.                          *)
(*                                                                         *)
(* A JavaScript string is a sequence of UTF-16 code units (all characters  *)
(* used are in the Basic Multilingual Plane, so a code unit is a code      *)
(* point): "amanuel" is <<97,109,97,110,117,101,108>>.  A JavaScript value *)
(* is a record [type, chars]; type is "string", "null", "undefined" or     *)
(* "number", and chars is the string's content (<<>> for a non-string).    *)
(* Fractional edit costs (0.3, 0.5, 1) are kept in tenths (3, 5, 10).      *)
(***************************************************************************)
EXTENDS Integers, Sequences, FiniteSets, TLC

VARIABLES
    cache,      \* transliterationCache: the Map's entries [key, value] in insertion order
    nameTrie,   \* the lazily built trie singleton
    ret,        \* the latest call: its operation, arguments and outcome
    lastHit,    \* history: the cache key the latest cache hit read, <<>> if none
    inserted    \* history: the pairs given to insert on a trie of its own, in call order

vars == <<cache, nameTrie, ret, lastHit, inserted>>

(***************************************************************************)
(* JavaScript strings                                                      *)
(***************************************************************************)
Str(s) == [type |-> "string", chars |-> s]

Null == [type |-> "null", chars |-> <<>>]

Undefined == [type |-> "undefined", chars |-> <<>>]

Number == [type |-> "number", chars |-> <<>>]

Min(a, b) == IF a <= b THEN a ELSE b

Max(a, b) == IF a >= b THEN a ELSE b

\* String.prototype.toLowerCase / toUpperCase on the characters the model uses
\* (ASCII letters change, everything else, Ethiopic included, has no case).
toLowerCase(s) ==
    IF s = <<>> THEN <<>>
    ELSE [i \in 1..Len(s) |-> IF s[i] \in 65..90 THEN s[i] + 32 ELSE s[i]]

toUpperCase(s) == [i \in 1..Len(s) |-> IF s[i] \in 97..122 THEN s[i] - 32 ELSE s[i]]

\* The characters String.prototype.trim removes and the regular expression \s matches.
WhiteSpace == {9, 10, 11, 12, 13, 32, 160, 5760, 8232, 8233, 8239, 8287, 12288, 65279}
                 \cup (8192..8202)

RECURSIVE trimStart(_)
trimStart(s) == IF s # <<>> /\ Head(s) \in WhiteSpace THEN trimStart(Tail(s)) ELSE s

RECURSIVE trimEnd(_)
trimEnd(s) ==
    IF s # <<>> /\ s[Len(s)] \in WhiteSpace THEN trimEnd(SubSeq(s, 1, Len(s) - 1)) ELSE s

trim(s) == trimEnd(trimStart(s))

\* s.substring(from) and s.substring(from, to), 0-based, end exclusive, clamped.
substring(s, from, to) == SubSeq(s, Min(from, Len(s)) + 1, Min(to, Len(s)))

substringFrom(s, from) == substring(s, from, Len(s))

includes(s, sub) ==
    \E i \in 0..(Len(s) - Len(sub)) : SubSeq(s, i + 1, i + Len(sub)) = sub

startsWith(s, prefix) == Len(prefix) <= Len(s) /\ SubSeq(s, 1, Len(prefix)) = prefix

\* s.split(/\s+/).filter(w => w.length > 0): the maximal runs of non-space characters.
RECURSIVE splitWords(_, _, _)
splitWords(s, word, acc) ==
    IF s = <<>> THEN (IF word = <<>> THEN acc ELSE Append(acc, word))
    ELSE IF Head(s) \in WhiteSpace
         THEN splitWords(Tail(s), <<>>, IF word = <<>> THEN acc ELSE Append(acc, word))
         ELSE splitWords(Tail(s), Append(word, Head(s)), acc)

\* A JavaScript Set or array built by add(): first insertion wins, order kept.
Contains(seq, x) == \E i \in 1..Len(seq) : seq[i] = x

SetAdd(seq, x) == IF Contains(seq, x) THEN seq ELSE Append(seq, x)

RECURSIVE SetAddAll(_, _)
SetAddAll(seq, items) ==
    IF items = <<>> THEN seq ELSE SetAddAll(SetAdd(seq, Head(items)), Tail(items))

Elements(seq) == {seq[i] : i \in 1..Len(seq)}

(***************************************************************************)
(* errors.ts and validation.ts                                             *)
(***************************************************************************)
MAX_INPUT_LENGTH == 1000

MAX_QUERY_LENGTH == 500

ERROR_CODES ==
    [INVALID_INPUT_TYPE |-> "INVALID_INPUT_TYPE", INPUT_TOO_LONG |-> "INPUT_TOO_LONG",
     INPUT_EMPTY |-> "INPUT_EMPTY", INVALID_CHARACTERS |-> "INVALID_CHARACTERS",
     SECURITY_VIOLATION |-> "SECURITY_VIOLATION"]

NoError == [name |-> "", code |-> "", cause |-> ""]

\* class ValidationError: constructor(message, cause) { super(message, 'VALIDATION_ERROR', cause) }
\* The second constructor argument becomes `cause`; `code` is always VALIDATION_ERROR.
ValidationError(cause) == [name |-> "ValidationError", code |-> "VALIDATION_ERROR", cause |-> cause]

Return(v) == [ok |-> TRUE, value |-> v, error |-> NoError]

Throw(e) == [ok |-> FALSE, value |-> <<>>, error |-> e]

\* CONTROL_CHARACTERS_REGEX = /[\x00-\x1F\x7F-\x9F]/g
ControlCharacters == (0..31) \cup (127..159)

\* A sanitizer that keeps the letters a-z and A-Z and the space only.
removeAllButLatinLetters(s) ==
    SelectSeq(s, LAMBDA c : c \in (65..90) \cup (97..122) \cup {32})

\* A sanitizer whose character class is too wide: it keeps printable ASCII only.
removePrintableAsciiComplement(s) == SelectSeq(s, LAMBDA c : c \in 32..126)

RECURSIVE removeControlCharacters(_)
removeControlCharacters(s) ==
    IF s = <<>> THEN <<>>
    ELSE IF Head(s) \in ControlCharacters
         THEN removeControlCharacters(Tail(s))
         ELSE <<Head(s)>> \o removeControlCharacters(Tail(s))

\* A validator that does not check what is left after sanitizing.
validateWithoutEmptyResultCheck(input, maxLength) ==
    IF input.type # "string" THEN Throw(ValidationError(ERROR_CODES.INVALID_INPUT_TYPE))
    ELSE IF Len(input.chars) = 0 THEN Throw(ValidationError(ERROR_CODES.INPUT_EMPTY))
    ELSE IF Len(input.chars) > maxLength
         THEN Throw(ValidationError(ERROR_CODES.INPUT_TOO_LONG))
    ELSE Return(trim(removeControlCharacters(input.chars)))

validateAndSanitizeInput(input, maxLength) ==
    IF input.type # "string" THEN Throw(ValidationError(ERROR_CODES.INVALID_INPUT_TYPE))
    ELSE IF Len(input.chars) = 0 THEN Throw(ValidationError(ERROR_CODES.INPUT_EMPTY))
    ELSE IF Len(input.chars) > maxLength
         THEN Throw(ValidationError(ERROR_CODES.INPUT_TOO_LONG))
    ELSE LET sanitized == trim(removeControlCharacters(input.chars))
         IN  IF Len(sanitized) = 0
             THEN Throw(ValidationError(ERROR_CODES.INVALID_CHARACTERS))
             ELSE Return(sanitized)

\* The catch clause of validateSearchQuery: which errors become the empty string.
IsInvalidCharactersError(error) ==
    error.name = "ValidationError" /\ error.code = "INVALID_CHARACTERS"

\* A query validator without the lenient cases: every query is validated strictly.
validateSearchQueryStrictly(query) == validateAndSanitizeInput(query, MAX_QUERY_LENGTH)

validateSearchQuery(query) ==
    IF query.type \in {"null", "undefined"} \/ (query.type = "string" /\ query.chars = <<>>)
    THEN Return(<<>>)
    ELSE IF query.type = "string" /\ Len(trim(query.chars)) = 0 THEN Return(<<>>)
    ELSE LET r == validateAndSanitizeInput(query, MAX_QUERY_LENGTH)
         IN  IF r.ok THEN r
             ELSE IF IsInvalidCharactersError(r.error) THEN Return(<<>>)
             ELSE r

(***************************************************************************)
(* name-mappings.ts: COMMON_NAMES.  The table itself is not part of the    *)
(* sources at hand; these are the pairs README.md lists as included, in    *)
(* its order: amanuel, tadesse, tesfaye, yohannes, mariam.                 *)
(***************************************************************************)
COMMON_NAMES ==
    << <<(<<97,109,97,110,117,101,108>>), (<<4768,4635,4753,4772,4621>>)>>,
       <<(<<116,97,100,101,115,115,101>>), (<<4723,4848,4656>>)>>,
       <<(<<116,101,115,102,97,121,101>>), (<<4720,4661,4939,4844>>)>>,
       <<(<<121,111,104,97,110,110,101,115>>), (<<4846,4624,4757,4661>>)>>,
       <<(<<109,97,114,105,97,109>>), (<<4635,4653,4843,4637>>)>> >>

(***************************************************************************)
(* trie.ts: NameTrie.  A trie is a function from the path of a node (the   *)
(* characters from the root) to the node; children and amharicVariants are *)
(* sequences because Map and Set iterate in insertion order.               *)
(***************************************************************************)
NewNode == [children |-> <<>>, amharicVariants |-> <<>>, isEnd |-> FALSE]

NewTrie == (<<>> :> NewNode)

\* The loop of insert: creates the missing nodes along `normalized`.
RECURSIVE insertWalk(_, _, _)
insertWalk(nodes, normalized, i) ==
    IF i > Len(normalized) THEN nodes
    ELSE LET parent == SubSeq(normalized, 1, i - 1)
             path == SubSeq(normalized, 1, i)
         IN  IF path \in DOMAIN nodes
             THEN insertWalk(nodes, normalized, i + 1)
             ELSE insertWalk(
                    (path :> NewNode) @@
                    [nodes EXCEPT ![parent].children = Append(@, normalized[i])],
                    normalized, i + 1)

\* An insert that overwrites the node's variant set instead of adding to it.
insertReplacingVariants(nodes, english, amharic) ==
    LET normalized == toLowerCase(english)
        walked == insertWalk(nodes, normalized, 1)
    IN  [walked EXCEPT ![normalized].isEnd = TRUE,
                       ![normalized].amharicVariants = <<amharic>>]

insert(nodes, english, amharic) ==
    LET normalized == toLowerCase(english)
        walked == insertWalk(nodes, normalized, 1)
    IN  [walked EXCEPT ![normalized].isEnd = TRUE,
                       ![normalized].amharicVariants = SetAdd(@, amharic)]

searchExact(nodes, query) ==
    LET normalized == toLowerCase(query)
    IN  IF normalized \notin DOMAIN nodes THEN <<>>
        ELSE IF nodes[normalized].isEnd THEN nodes[normalized].amharicVariants ELSE <<>>

\* A collection that stops at the node and does not descend into its children.
collectOwnVariants(nodes, path, results) == SetAddAll(results, nodes[path].amharicVariants)

\* collectVariants: the node's variants, then each child's subtree in Map order.
\* The tests Len(own) >= 0 and Len(below) >= 0 always hold: they make TLC compute
\* the set collected so far before the recursive call.
RECURSIVE collectVariants(_, _, _)
RECURSIVE collectChildren(_, _, _, _)
collectVariants(nodes, path, results) ==
    LET own == SetAddAll(results, nodes[path].amharicVariants)
    IN  IF Len(own) >= 0 THEN collectChildren(nodes, path, 1, own) ELSE own

collectChildren(nodes, path, k, results) ==
    LET below == collectVariants(nodes, Append(path, nodes[path].children[k]), results)
    IN  IF k > Len(nodes[path].children) THEN results
        ELSE IF Len(below) >= 0 THEN collectChildren(nodes, path, k + 1, below)
        ELSE below

searchPrefix(nodes, prefix) ==
    LET normalized == toLowerCase(prefix)
    IN  IF normalized \notin DOMAIN nodes THEN <<>>
        ELSE collectVariants(nodes, normalized, <<>>)

\* A substring search that tries offset 0 only.
searchContainsAtStartOnly(nodes, query) == searchPrefix(nodes, query)

RECURSIVE searchContainsFrom(_, _, _, _)
searchContainsFrom(nodes, normalized, i, results) ==
    IF i >= Len(normalized) THEN results
    ELSE searchContainsFrom(nodes, normalized, i + 1,
            SetAddAll(results, searchPrefix(nodes, substringFrom(normalized, i))))

searchContains(nodes, query) == searchContainsFrom(nodes, toLowerCase(query), 0, <<>>)

RECURSIVE insertAll(_, _, _)
insertAll(nodes, mappings, k) ==
    IF k > Len(mappings) THEN nodes
    ELSE insertAll(insert(nodes, mappings[k][1], mappings[k][2]), mappings, k + 1)

fromMappings(mappings) == insertAll(NewTrie, mappings, 1)

(***************************************************************************)
(* utils.ts                                                                *)
(***************************************************************************)
\* The substitution cost of the two edit distances, in tenths when `aware`:
\* levenshteinDistance: 0 or 1; transliterationAwareDistance: 0, 0.3 (two vowels),
\* 0.5 (s/z, t/d) or 1.
Vowels == {97, 101, 105, 117, 111}

ConsonantVariant(c1, c2) ==
    {c1, c2} \in {{115, 122}, {116, 100}}

\* A variant-aware cost that charges 1.5 for a substitution of unrelated letters.
SubstitutionCostDearer(c1, c2, aware) ==
    IF c1 = c2 THEN 0
    ELSE IF ~aware THEN 1
    ELSE IF c1 \in Vowels /\ c2 \in Vowels THEN 3
    ELSE IF ConsonantVariant(c1, c2) THEN 5
    ELSE 15

SubstitutionCost(c1, c2, aware) ==
    IF c1 = c2 THEN 0
    ELSE IF ~aware THEN 1
    ELSE IF c1 \in Vowels /\ c2 \in Vowels THEN 3
    ELSE IF ConsonantVariant(c1, c2) THEN 5
    ELSE 10

\* One row of the dynamic-programming matrix from the row above it: row[j + 1] is
\* matrix[i][j]; `unit` is the cost of an insertion or a deletion.  The tests
\* cell >= 0 and Len(row) > 0 always hold: they make TLC compute a cell or a row
\* before the recursive call instead of passing it on unevaluated.
RECURSIVE matrixRow(_, _, _, _, _, _)
matrixRow(above, c1, str2, aware, unit, row) ==
    LET j == Len(row)
        cell == Min(Min(above[j + 1] + unit, row[j] + unit),
                    above[j] + SubstitutionCost(c1, str2[j], aware))
    IN  IF j > Len(str2) THEN row
        ELSE IF cell >= 0 THEN matrixRow(above, c1, str2, aware, unit, Append(row, cell))
        ELSE row

RECURSIVE matrixLastRow(_, _, _, _, _, _)
matrixLastRow(str1, str2, aware, unit, i, above) ==
    LET row == matrixRow(above, str1[i], str2, aware, unit, <<i * unit>>)
    IN  IF i > Len(str1) THEN above
        ELSE IF Len(row) > 0 THEN matrixLastRow(str1, str2, aware, unit, i + 1, row)
        ELSE row

editDistance(str1, str2, aware, unit) ==
    matrixLastRow(str1, str2, aware, unit, 1, [j \in 1..(Len(str2) + 1) |-> (j - 1) * unit])
        [Len(str2) + 1]

levenshteinDistance(str1, str2) == editDistance(str1, str2, FALSE, 1)

\* similarityRatio as the fraction [num, den] = 1 - distance / maxLength.
similarityRatio(str1, str2) ==
    LET maxLength == Max(Len(str1), Len(str2))
    IN  IF maxLength = 0 THEN [num |-> 1, den |-> 1]
        ELSE [num |-> maxLength - levenshteinDistance(str1, str2), den |-> maxLength]

\* num / den >= p / q and num / den <= p / q, for den > 0 and q > 0.
AtLeast(num, den, p, q) == num * q >= p * den

AtMost(num, den, p, q) == num * q <= p * den

phoneticMap ==
    4768 :> <<65>> @@ 4769 :> <<85>> @@ 4770 :> <<73>> @@ 4772 :> <<69>> @@ 4774 :> <<79>>
    @@ 4704 :> <<66>> @@ 4705 :> <<66,85>> @@ 4706 :> <<66,73>> @@ 4708 :> <<66,69>>
    @@ 4710 :> <<66,79>> @@ 4720 :> <<84>> @@ 4721 :> <<84,85>> @@ 4722 :> <<84,73>>
    @@ 4724 :> <<84,69>> @@ 4726 :> <<84,79>> @@ 4608 :> <<72>> @@ 4609 :> <<72,85>>
    @@ 4610 :> <<72,73>> @@ 4612 :> <<72,69>> @@ 4614 :> <<72,79>> @@ 4632 :> <<77>>
    @@ 4633 :> <<77,85>> @@ 4634 :> <<77,73>> @@ 4636 :> <<77,69>> @@ 4638 :> <<77,79>>
    @@ 4648 :> <<82>> @@ 4649 :> <<82,85>> @@ 4650 :> <<82,73>> @@ 4652 :> <<82,69>>
    @@ 4654 :> <<82,79>> @@ 4656 :> <<83>> @@ 4657 :> <<83,85>> @@ 4658 :> <<83,73>>
    @@ 4660 :> <<83,69>> @@ 4662 :> <<83,79>> @@ 4840 :> <<89>> @@ 4841 :> <<89,85>>
    @@ 4842 :> <<89,73>> @@ 4844 :> <<89,69>> @@ 4846 :> <<89,79>>

RECURSIVE phoneticLetters(_)
phoneticLetters(normalized) ==
    IF normalized = <<>> THEN <<>>
    ELSE LET char == Head(normalized)
         IN  (IF char \in DOMAIN phoneticMap THEN phoneticMap[char]
              ELSE IF char \in 97..122 THEN <<char - 32>>
              ELSE <<>>) \o phoneticLetters(Tail(normalized))

phoneticHash(input) ==
    LET normalized == trim(toLowerCase(input))
        unique == substring(SetAddAll(<<>>, phoneticLetters(normalized)), 0, 6)
    IN  IF normalized = <<>> THEN <<>>
        ELSE IF unique # <<>> THEN unique
        ELSE toUpperCase(substring(normalized, 0, 6))

isPhoneticallySimilar(str1, str2) ==
    LET hash1 == phoneticHash(str1)
        hash2 == phoneticHash(str2)
        similarity == similarityRatio(hash1, hash2)
    IN  IF hash1 = <<>> \/ hash2 = <<>> THEN FALSE
        ELSE IF hash1 = hash2 THEN TRUE
        ELSE AtLeast(similarity.num, similarity.den, 7, 10)

(***************************************************************************)
(* romanization.ts                                                         *)
(***************************************************************************)
AMHARIC_TO_ASCII ==
    4608 :> <<104,97>> @@ 4609 :> <<104,117>> @@ 4610 :> <<104,105>> @@ 4611 :> <<104,97>>
    @@ 4612 :> <<104,101>> @@ 4613 :> <<104>> @@ 4614 :> <<104,111>> @@ 4616 :> <<108,97>>
    @@ 4617 :> <<108,117>> @@ 4618 :> <<108,105>> @@ 4619 :> <<108,97>>
    @@ 4620 :> <<108,101>> @@ 4621 :> <<108>> @@ 4622 :> <<108,111>> @@ 4624 :> <<104,97>>
    @@ 4625 :> <<104,117>> @@ 4626 :> <<104,105>> @@ 4627 :> <<104,97>>
    @@ 4628 :> <<104,101>> @@ 4629 :> <<104>> @@ 4630 :> <<104,111>> @@ 4632 :> <<109,97>>
    @@ 4633 :> <<109,117>> @@ 4634 :> <<109,105>> @@ 4635 :> <<109,97>>
    @@ 4636 :> <<109,101>> @@ 4637 :> <<109>> @@ 4638 :> <<109,111>> @@ 4640 :> <<115,97>>
    @@ 4641 :> <<115,117>> @@ 4642 :> <<115,105>> @@ 4643 :> <<115,97>>
    @@ 4644 :> <<115,101>> @@ 4645 :> <<115>> @@ 4646 :> <<115,111>> @@ 4648 :> <<114,97>>
    @@ 4649 :> <<114,117>> @@ 4650 :> <<114,105>> @@ 4651 :> <<114,97>>
    @@ 4652 :> <<114,101>> @@ 4653 :> <<114>> @@ 4654 :> <<114,111>> @@ 4656 :> <<115,97>>
    @@ 4657 :> <<115,117>> @@ 4658 :> <<115,105>> @@ 4659 :> <<115,97>>
    @@ 4660 :> <<115,101>> @@ 4661 :> <<115>> @@ 4662 :> <<115,111>>
    @@ 4664 :> <<115,104,97>> @@ 4665 :> <<115,104,117>> @@ 4666 :> <<115,104,105>>
    @@ 4667 :> <<115,104,97>> @@ 4668 :> <<115,104,101>> @@ 4669 :> <<115,104>>
    @@ 4670 :> <<115,104,111>> @@ 4672 :> <<113,97>> @@ 4673 :> <<113,117>>
    @@ 4674 :> <<113,105>> @@ 4675 :> <<113,97>> @@ 4676 :> <<113,101>> @@ 4677 :> <<113>>
    @@ 4678 :> <<113,111>> @@ 4704 :> <<98,97>> @@ 4705 :> <<98,117>> @@ 4706 :> <<98,105>>
    @@ 4707 :> <<98,97>> @@ 4708 :> <<98,101>> @@ 4709 :> <<98>> @@ 4710 :> <<98,111>>
    @@ 4720 :> <<116,97>> @@ 4721 :> <<116,117>> @@ 4722 :> <<116,105>>
    @@ 4723 :> <<116,97>> @@ 4724 :> <<116,101>> @@ 4725 :> <<116>> @@ 4726 :> <<116,111>>
    @@ 4728 :> <<99,104,97>> @@ 4729 :> <<99,104,117>> @@ 4730 :> <<99,104,105>>
    @@ 4731 :> <<99,104,97>> @@ 4732 :> <<99,104,101>> @@ 4733 :> <<99,104>>
    @@ 4734 :> <<99,104,111>> @@ 4736 :> <<104,97>> @@ 4737 :> <<104,117>>
    @@ 4738 :> <<104,105>> @@ 4739 :> <<104,97>> @@ 4740 :> <<104,101>> @@ 4741 :> <<104>>
    @@ 4742 :> <<104,111>> @@ 4752 :> <<110,97>> @@ 4753 :> <<110,117>>
    @@ 4754 :> <<110,105>> @@ 4755 :> <<110,97>> @@ 4756 :> <<110,101>> @@ 4757 :> <<110>>
    @@ 4758 :> <<110,111>> @@ 4760 :> <<110,121,97>> @@ 4761 :> <<110,121,117>>
    @@ 4762 :> <<110,121,105>> @@ 4763 :> <<110,121,97>> @@ 4764 :> <<110,121,101>>
    @@ 4765 :> <<110,121>> @@ 4766 :> <<110,121,111>> @@ 4768 :> <<97>> @@ 4769 :> <<117>>
    @@ 4770 :> <<105>> @@ 4771 :> <<97>> @@ 4772 :> <<101>> @@ 4773 :> <<101>>
    @@ 4774 :> <<111>> @@ 4776 :> <<107,97>> @@ 4777 :> <<107,117>> @@ 4778 :> <<107,105>>
    @@ 4779 :> <<107,97>> @@ 4780 :> <<107,101>> @@ 4781 :> <<107>> @@ 4782 :> <<107,111>>
    @@ 4792 :> <<104,97>> @@ 4793 :> <<104,117>> @@ 4794 :> <<104,105>>
    @@ 4795 :> <<104,97>> @@ 4796 :> <<104,101>> @@ 4797 :> <<104>> @@ 4798 :> <<104,111>>
    @@ 4808 :> <<119,97>> @@ 4809 :> <<119,117>> @@ 4810 :> <<119,105>>
    @@ 4811 :> <<119,97>> @@ 4812 :> <<119,101>> @@ 4813 :> <<119>> @@ 4814 :> <<119,111>>
    @@ 4816 :> <<97>> @@ 4817 :> <<117>> @@ 4818 :> <<105>> @@ 4819 :> <<97>>
    @@ 4820 :> <<101>> @@ 4821 :> <<101>> @@ 4822 :> <<111>> @@ 4824 :> <<122,97>>
    @@ 4825 :> <<122,117>> @@ 4826 :> <<122,105>> @@ 4827 :> <<122,97>>
    @@ 4828 :> <<122,101>> @@ 4829 :> <<122>> @@ 4830 :> <<122,111>>
    @@ 4832 :> <<122,104,97>> @@ 4833 :> <<122,104,117>> @@ 4834 :> <<122,104,105>>
    @@ 4835 :> <<122,104,97>> @@ 4836 :> <<122,104,101>> @@ 4837 :> <<122,104>>
    @@ 4838 :> <<122,104,111>> @@ 4840 :> <<121,97>> @@ 4841 :> <<121,117>>
    @@ 4842 :> <<121,105>> @@ 4843 :> <<121,97>> @@ 4844 :> <<121,101>> @@ 4845 :> <<121>>
    @@ 4846 :> <<121,111>> @@ 4848 :> <<100,97>> @@ 4849 :> <<100,117>>
    @@ 4850 :> <<100,105>> @@ 4851 :> <<100,97>> @@ 4852 :> <<100,101>> @@ 4853 :> <<100>>
    @@ 4854 :> <<100,111>> @@ 4864 :> <<106,97>> @@ 4865 :> <<106,117>>
    @@ 4866 :> <<106,105>> @@ 4867 :> <<106,97>> @@ 4868 :> <<106,101>> @@ 4869 :> <<106>>
    @@ 4870 :> <<106,111>> @@ 4872 :> <<103,97>> @@ 4873 :> <<103,117>>
    @@ 4874 :> <<103,105>> @@ 4875 :> <<103,97>> @@ 4876 :> <<103,101>> @@ 4877 :> <<103>>
    @@ 4878 :> <<103,111>> @@ 4896 :> <<116,97>> @@ 4897 :> <<116,117>>
    @@ 4898 :> <<116,105>> @@ 4899 :> <<116,97>> @@ 4900 :> <<116,101>> @@ 4901 :> <<116>>
    @@ 4902 :> <<116,111>> @@ 4904 :> <<99,104,97>> @@ 4905 :> <<99,104,117>>
    @@ 4906 :> <<99,104,105>> @@ 4907 :> <<99,104,97>> @@ 4908 :> <<99,104,101>>
    @@ 4909 :> <<99,104>> @@ 4910 :> <<99,104,111>> @@ 4912 :> <<112,97>>
    @@ 4913 :> <<112,117>> @@ 4914 :> <<112,105>> @@ 4915 :> <<112,97>>
    @@ 4916 :> <<112,101>> @@ 4917 :> <<112>> @@ 4918 :> <<112,111>>
    @@ 4920 :> <<116,115,97>> @@ 4921 :> <<116,115,117>> @@ 4922 :> <<116,115,105>>
    @@ 4923 :> <<116,115,97>> @@ 4924 :> <<116,115,101>> @@ 4925 :> <<116,115>>
    @@ 4926 :> <<116,115,111>> @@ 4928 :> <<116,115,97>> @@ 4929 :> <<116,115,117>>
    @@ 4930 :> <<116,115,105>> @@ 4931 :> <<116,115,97>> @@ 4932 :> <<116,115,101>>
    @@ 4933 :> <<116,115>> @@ 4934 :> <<116,115,111>> @@ 4936 :> <<102,97>>
    @@ 4937 :> <<102,117>> @@ 4938 :> <<102,105>> @@ 4939 :> <<102,97>>
    @@ 4940 :> <<102,101>> @@ 4941 :> <<102>> @@ 4942 :> <<102,111>> @@ 4944 :> <<112,97>>
    @@ 4945 :> <<112,117>> @@ 4946 :> <<112,105>> @@ 4947 :> <<112,97>>
    @@ 4948 :> <<112,101>> @@ 4949 :> <<112>> @@ 4950 :> <<112,111>> @@ 4712 :> <<118,97>>
    @@ 4713 :> <<118,117>> @@ 4714 :> <<118,105>> @@ 4715 :> <<118,97>>
    @@ 4716 :> <<118,101>> @@ 4717 :> <<118>> @@ 4718 :> <<118,111>>

\* A maximal run of white space becomes one space (replace(/\s+/g, ' ')).
RECURSIVE collapseSpaces(_)
collapseSpaces(s) ==
    IF s = <<>> THEN <<>>
    ELSE IF Head(s) \in WhiteSpace
         THEN <<32>> \o collapseSpaces(trimStart(s))
         ELSE <<Head(s)>> \o collapseSpaces(Tail(s))

\* A normalization that does not collapse runs of spaces.
normalizeAsciiKeepingRuns(input) == trim(toLowerCase(input))

normalizeAscii(input) == trim(collapseSpaces(toLowerCase(input)))

\* In tenths.  An empty argument gives the longer length.  The code adds the costs
\* 0.3, 0.5 and 1 as doubles and compares the sum with 1.5 or 2.0; every order of
\* adding such costs to a total of 1.5 or of 2.0 gives exactly that double, and any
\* other total differs from it by 0.1 or more, so the comparison of the tenths is
\* the comparison of the doubles.
transliterationAwareDistance(str1, str2) ==
    LET s1 == toLowerCase(str1)
        s2 == toLowerCase(str2)
    IN  IF str1 = <<>> \/ str2 = <<>> THEN 10 * Max(Len(str1), Len(str2))
        ELSE IF s1 = s2 THEN 0
        ELSE editDistance(s1, s2, TRUE, 10)

\* A variant check without the substring test.
matchesVariantWithoutSubstring(str1, str2, maxDistance) ==
    LET s1 == toLowerCase(str1)
        s2 == toLowerCase(str2)
    IN  IF str1 = <<>> \/ str2 = <<>> THEN FALSE
        ELSE IF s1 = s2 THEN TRUE
        ELSE transliterationAwareDistance(s1, s2) <= maxDistance

\* maxDistance in tenths (1.5 is 15).
matchesTransliterationVariant(str1, str2, maxDistance) ==
    LET s1 == toLowerCase(str1)
        s2 == toLowerCase(str2)
    IN  IF str1 = <<>> \/ str2 = <<>> THEN FALSE
        ELSE IF s1 = s2 THEN TRUE
        ELSE IF includes(s1, s2) \/ includes(s2, s1) THEN TRUE
        ELSE transliterationAwareDistance(s1, s2) <= maxDistance

RECURSIVE romanizeCharacters(_)
romanizeCharacters(input) ==
    IF input = <<>> THEN <<>>
    ELSE LET ch == Head(input)
         IN  (IF ch \in DOMAIN AMHARIC_TO_ASCII THEN AMHARIC_TO_ASCII[ch]
              ELSE IF ch = 32 THEN <<32>>
              ELSE IF ch \in (97..122) \cup (65..90) \cup (48..57) THEN toLowerCase(<<ch>>)
              ELSE <<32>>) \o romanizeCharacters(Tail(input))

romanizeAmharicToAscii(input) ==
    IF input = <<>> THEN <<>> ELSE normalizeAscii(romanizeCharacters(input))

\* /[ሀ-፿]/
containsAmharic(input) == \E i \in 1..Len(input) : input[i] \in 4608..4991

(***************************************************************************)
(* transliteration.ts: the trie singleton and the cache                    *)
(***************************************************************************)
\* let nameTrie: NameTrie | null = null
NullTrie == [isNull |-> TRUE, nodes |-> NewTrie]

\* The trie built from the dictionary on first use.
BuiltTrie == [isNull |-> FALSE, nodes |-> fromMappings(COMMON_NAMES)]

getNameTrie(t) == IF t.isNull THEN BuiltTrie ELSE t

MAX_CACHE_SIZE == 1000

\* Map operations on the cache: a sequence of [key, value] in insertion order.
MapIndex(map, key) ==
    IF \E i \in 1..Len(map) : map[i].key = key
    THEN CHOOSE i \in 1..Len(map) : map[i].key = key
    ELSE 0

MapHas(map, key) == MapIndex(map, key) # 0

MapDelete(map, key) == SelectSeq(map, LAMBDA e : e.key # key)

MapSet(map, key, value) ==
    IF MapHas(map, key)
    THEN [map EXCEPT ![MapIndex(map, key)].value = value]
    ELSE Append(map, [key |-> key, value |-> value])

Keys(map) == {map[i].key : i \in 1..Len(map)}

\* A lookup that refreshes the entry it reads (moves it to the end of the order).
getCachedRefreshing(map, key) ==
    IF MapHas(map, key)
    THEN [found |-> TRUE, value |-> map[MapIndex(map, key)].value,
          map |-> Append(MapDelete(map, key), map[MapIndex(map, key)])]
    ELSE [found |-> FALSE, value |-> <<>>, map |-> map]

\* A store that never evicts.
setCacheUnbounded(map, key, value) == MapSet(map, key, value)

\* A cache key that leaves out includePartialMatches.
CacheKeyOfTextOnly(lower, includePartialMatches) == lower

\* getCached: Map.get reads the entry and leaves the map as it is.
\* Returns [found, value, map].
getCached(map, key) ==
    IF MapHas(map, key)
    THEN [found |-> TRUE, value |-> map[MapIndex(map, key)].value, map |-> map]
    ELSE [found |-> FALSE, value |-> <<>>, map |-> map]

setCache(map, key, value) ==
    LET evicted == IF Len(map) >= MAX_CACHE_SIZE /\ Len(map) > 0
                   THEN MapDelete(map, map[1].key)
                   ELSE map
    IN  MapSet(evicted, key, value)

\* `${lower}:${includePartialMatches}`
CacheKey(lower, includePartialMatches) ==
    lower \o <<58>> \o (IF includePartialMatches THEN <<116,114,117,101>>
                                                ELSE <<102,97,108,115,101>>)

\* A collection that returns the variants in the reverse of the order found.
collectResultsReversed(nodes, lower, includePartialMatches) ==
    LET found == IF includePartialMatches
                 THEN SetAddAll(SetAddAll(SetAddAll(<<>>, searchExact(nodes, lower)),
                                          searchPrefix(nodes, lower)),
                                searchContains(nodes, lower))
                 ELSE SetAddAll(<<>>, searchExact(nodes, lower))
    IN  [i \in 1..Len(found) |-> found[Len(found) + 1 - i]]

\* The trie searches of transliterateToAmharic (lines 103-121): exact first,
\* then prefix, then contains, into one Set.
collectResults(nodes, lower, includePartialMatches) ==
    LET exact == SetAddAll(<<>>, searchExact(nodes, lower))
    IN  IF includePartialMatches
        THEN SetAddAll(SetAddAll(exact, searchPrefix(nodes, lower)),
                       searchContains(nodes, lower))
        ELSE exact

\* transliterateToAmharic(englishText, {includePartialMatches, enableCache}) from the
\* cache `map` and trie `t`: [ok, value, error, cache, trie, hitKey]; hitKey is the
\* key the call found in the cache, <<>> when it found none.
Outcome(r, map, t, hitKey) ==
    [ok |-> r.ok, value |-> r.value, error |-> r.error, cache |-> map, trie |-> t,
     hitKey |-> hitKey]

transliterateToAmharic(englishText, includePartialMatches, enableCache, map, t) ==
    IF englishText.type = "string" /\ Len(trim(englishText.chars)) = 0
    THEN Outcome(Return(<<>>), map, t, <<>>)
    ELSE
    LET sanitized == validateAndSanitizeInput(englishText, MAX_INPUT_LENGTH)
    IN  IF ~sanitized.ok THEN Outcome(sanitized, map, t, <<>>)
        ELSE
        LET lower == trim(toLowerCase(sanitized.value))
            cacheKey == CacheKey(lower, includePartialMatches)
            cached == getCached(map, cacheKey)
        IN  IF lower = <<>> THEN Outcome(Return(<<>>), map, t, <<>>)
            ELSE IF enableCache /\ cached.found
                 THEN Outcome(Return(cached.value), cached.map, t, cacheKey)
            ELSE
            LET trie == getNameTrie(t)
                resultArray == collectResults(trie.nodes, lower, includePartialMatches)
                map1 == IF enableCache THEN cached.map ELSE map
            IN  Outcome(Return(resultArray),
                        IF enableCache THEN setCache(map1, cacheKey, resultArray) ELSE map1,
                        trie, <<>>)

\* The option defaults of matchesName's destructuring.
DefaultMatchOptions ==
    [caseSensitive |-> FALSE, wholeWord |-> FALSE, fuzzy |-> FALSE, maxDistance |-> 2,
     phonetic |-> FALSE]

\* A direct match without the prefix-variant check.
directMatchByContainment(nameTrimmed, queryTrimmed, options) ==
    IF options.wholeWord THEN nameTrimmed = queryTrimmed
    ELSE
    LET contained == includes(nameTrimmed, queryTrimmed) \/ includes(queryTrimmed, nameTrimmed)
        minLen == Min(Len(nameTrimmed), Len(queryTrimmed))
        maxLen == Max(Len(nameTrimmed), Len(queryTrimmed))
    IN  IF options.fuzzy THEN AtLeast(minLen, maxLen, 7, 10) /\ contained ELSE contained

\* A direct match that skips the containment test whenever fuzzy is set.
directMatchUncontainedWhenFuzzy(nameTrimmed, queryTrimmed, options) ==
    IF options.wholeWord THEN nameTrimmed = queryTrimmed
    ELSE
    LET contained == includes(nameTrimmed, queryTrimmed) \/ includes(queryTrimmed, nameTrimmed)
        namePrefix == substring(nameTrimmed, 0, Len(queryTrimmed))
    IN  \/ ~options.fuzzy /\ contained
        \/ /\ ~options.caseSensitive
           /\ Len(queryTrimmed) >= 2
           /\ Len(nameTrimmed) >= Len(queryTrimmed)
           /\ matchesTransliterationVariant(namePrefix, queryTrimmed, 15)

\* "Direct match": whole-word equality, or containment and the same-script
\* prefix-variant check.
directMatch(nameTrimmed, queryTrimmed, options) ==
    IF options.wholeWord THEN nameTrimmed = queryTrimmed
    ELSE
    LET contained == includes(nameTrimmed, queryTrimmed) \/ includes(queryTrimmed, nameTrimmed)
        minLen == Min(Len(nameTrimmed), Len(queryTrimmed))
        maxLen == Max(Len(nameTrimmed), Len(queryTrimmed))
        namePrefix == substring(nameTrimmed, 0, Len(queryTrimmed))
    IN  \/ IF options.fuzzy THEN AtLeast(minLen, maxLen, 7, 10) /\ contained ELSE contained
        \/ /\ ~options.caseSensitive
           /\ Len(queryTrimmed) >= 2
           /\ Len(nameTrimmed) >= Len(queryTrimmed)
           /\ matchesTransliterationVariant(namePrefix, queryTrimmed, 15)

\* The fuzzy test with the distance comparison reversed.
withinFuzzyThresholdsReversed(str1, str2, maxDistance, maxNormalized, minRatio) ==
    LET distance == levenshteinDistance(str1, str2)
        maxLen == Max(Len(str1), Len(str2))
        minLen == Min(Len(str1), Len(str2))
    IN  /\ maxLen > 0
        /\ distance >= maxDistance
        /\ AtMost(distance, maxLen, maxNormalized, 100)
        /\ AtLeast(minLen, maxLen, minRatio, 10)

\* The whole-string fuzzy test shared by the fuzzy stages: distance <= maxDistance,
\* distance / maxLen <= maxNormalized / 100 and minLen / maxLen >= minRatio / 10.
withinFuzzyThresholds(str1, str2, maxDistance, maxNormalized, minRatio) ==
    LET distance == levenshteinDistance(str1, str2)
        maxLen == Max(Len(str1), Len(str2))
        minLen == Min(Len(str1), Len(str2))
    IN  /\ maxLen > 0
        /\ distance <= maxDistance
        /\ AtMost(distance, maxLen, maxNormalized, 100)
        /\ AtLeast(minLen, maxLen, minRatio, 10)

fuzzyMatch(nameTrimmed, queryTrimmed, options) ==
    options.fuzzy /\ withinFuzzyThresholds(nameTrimmed, queryTrimmed, options.maxDistance, 25, 6)

phoneticMatch(nameTrimmed, queryTrimmed, options) ==
    options.phonetic /\ isPhoneticallySimilar(nameTrimmed, queryTrimmed)

\* One query word against one word of the romanized name (the inner loop body).
wordMatches(nameWord, queryWord) ==
    LET namePrefix == substring(nameWord, 0, Len(queryWord))
    IN  \/ includes(nameWord, queryWord) \/ includes(queryWord, nameWord)
        \/ startsWith(nameWord, queryWord) \/ startsWith(queryWord, nameWord)
        \/ /\ Len(queryWord) >= 2
           /\ Len(nameWord) >= Len(queryWord)
           /\ \/ matchesTransliterationVariant(namePrefix, queryWord, 20)
              \/ /\ levenshteinDistance(toLowerCase(namePrefix), toLowerCase(queryWord)) <= 2
                 /\ Len(namePrefix) >= 2

\* A word loop that is satisfied by one matching query word.
someWordMatches(romanizedName, queryTrimmed) ==
    LET queryWords == splitWords(queryTrimmed, <<>>, <<>>)
        nameWords == splitWords(romanizedName, <<>>, <<>>)
    IN  \E q \in 1..Len(queryWords) :
            \E n \in 1..Len(nameWords) : wordMatches(nameWords[n], queryWords[q])

allWordsMatch(romanizedName, queryTrimmed) ==
    LET queryWords == splitWords(queryTrimmed, <<>>, <<>>)
        nameWords == splitWords(romanizedName, <<>>, <<>>)
    IN  \A q \in 1..Len(queryWords) :
            \E n \in 1..Len(nameWords) : wordMatches(nameWords[n], queryWords[q])

\* Case 1 without the containment test: only equality, the word loop and fuzzy.
romanizedNameMatchWithoutContainment(nameTrimmed, queryTrimmed, options) ==
    LET romanizedName == romanizeAmharicToAscii(nameTrimmed)
    IN  /\ containsAmharic(nameTrimmed) /\ ~containsAmharic(queryTrimmed)
        /\ romanizedName # <<>>
        /\ \/ romanizedName = queryTrimmed
           \/ includes(queryTrimmed, <<32>>) /\ allWordsMatch(romanizedName, queryTrimmed)
           \/ /\ options.fuzzy
              /\ withinFuzzyThresholds(romanizedName, queryTrimmed, options.maxDistance, 35, 5)

\* Case 1: name is Amharic, query is not.
romanizedNameMatch(nameTrimmed, queryTrimmed, options) ==
    LET romanizedName == romanizeAmharicToAscii(nameTrimmed)
    IN  /\ containsAmharic(nameTrimmed) /\ ~containsAmharic(queryTrimmed)
        /\ romanizedName # <<>>
        /\ \/ romanizedName = queryTrimmed
           \/ includes(romanizedName, queryTrimmed) \/ includes(queryTrimmed, romanizedName)
           \/ includes(queryTrimmed, <<32>>) /\ allWordsMatch(romanizedName, queryTrimmed)
           \/ /\ options.fuzzy
              /\ withinFuzzyThresholds(romanizedName, queryTrimmed, options.maxDistance, 35, 5)

\* Case 2: query is Amharic, name is not.
romanizedQueryMatch(nameTrimmed, queryTrimmed, options) ==
    LET romanizedQuery == romanizeAmharicToAscii(queryTrimmed)
        namePrefix == substring(nameTrimmed, 0, Len(romanizedQuery))
    IN  /\ ~containsAmharic(nameTrimmed) /\ containsAmharic(queryTrimmed)
        /\ romanizedQuery # <<>>
        /\ \/ nameTrimmed = romanizedQuery
           \/ includes(nameTrimmed, romanizedQuery)
           \/ startsWith(nameTrimmed, romanizedQuery)
           \/ /\ Len(romanizedQuery) >= 2
              /\ Len(nameTrimmed) >= Len(romanizedQuery)
              /\ \/ matchesTransliterationVariant(namePrefix, romanizedQuery, 15)
                 \/ levenshteinDistance(toLowerCase(namePrefix), toLowerCase(romanizedQuery)) <= 1
           \/ includes(romanizedQuery, nameTrimmed)
           \/ /\ options.fuzzy
              /\ withinFuzzyThresholds(nameTrimmed, romanizedQuery, options.maxDistance, 40, 4)

\* The loop over the dictionary variants of the query; `name` is the raw argument.
variantsMatch(name, amharicVariants, options) ==
    \E v \in 1..Len(amharicVariants) :
        \/ includes(name, amharicVariants[v])
        \/ options.fuzzy /\ levenshteinDistance(name, amharicVariants[v]) <= options.maxDistance

\* The loop over COMMON_NAMES.
dictionaryMatch(name, nameToCheck, queryTrimmed, options) ==
    \E k \in 1..Len(COMMON_NAMES) :
        LET english == COMMON_NAMES[k][1]
            amharic == COMMON_NAMES[k][2]
            englishLower == IF options.caseSensitive THEN english ELSE toLowerCase(english)
        IN  \/ includes(nameToCheck, englishLower) /\ includes(queryTrimmed, amharic)
            \/ includes(name, amharic) /\ includes(queryTrimmed, englishLower)
            \/ /\ options.fuzzy
               /\ \/ levenshteinDistance(nameToCheck, englishLower) <= options.maxDistance
                  \/ levenshteinDistance(queryTrimmed, amharic) <= options.maxDistance
            \/ /\ options.phonetic
               /\ \/ isPhoneticallySimilar(nameToCheck, englishLower)
                  \/ isPhoneticallySimilar(queryTrimmed, amharic)

\* A fold that never lowercases.
foldCaseNever(sanitized, options) == sanitized

\* The name and the query as compared: lowercased unless caseSensitive.
foldCase(sanitized, options) ==
    IF options.caseSensitive THEN sanitized ELSE toLowerCase(sanitized)

\* matchesName(name, query, options) from the cache `map` and trie `t`:
\* [ok, value, error, cache, trie]; value is the verdict.
Verdict(ok, value, error, map, t, hitKey) ==
    [ok |-> ok, value |-> value, error |-> error, cache |-> map, trie |-> t,
     hitKey |-> hitKey]

matchesName(name, query, options, map, t) ==
    LET sanitizedName == validateAndSanitizeInput(name, 1000)
        sanitizedQuery == validateSearchQuery(query)
    IN  IF ~sanitizedName.ok THEN Verdict(FALSE, FALSE, sanitizedName.error, map, t, <<>>)
        ELSE IF ~sanitizedQuery.ok THEN Verdict(FALSE, FALSE, sanitizedQuery.error, map, t, <<>>)
        ELSE IF sanitizedQuery.value = <<>> THEN Verdict(TRUE, FALSE, NoError, map, t, <<>>)
        ELSE
        LET nameToCheck == foldCase(sanitizedName.value, options)
            queryToCheck == foldCase(sanitizedQuery.value, options)
            nameTrimmed == trim(nameToCheck)
            queryTrimmed == trim(queryToCheck)
        IN  IF queryTrimmed = <<>> THEN Verdict(TRUE, FALSE, NoError, map, t, <<>>)
            ELSE IF \/ directMatch(nameTrimmed, queryTrimmed, options)
                    \/ fuzzyMatch(nameTrimmed, queryTrimmed, options)
                    \/ phoneticMatch(nameTrimmed, queryTrimmed, options)
                    \/ romanizedNameMatch(nameTrimmed, queryTrimmed, options)
                    \/ romanizedQueryMatch(nameTrimmed, queryTrimmed, options)
                 THEN Verdict(TRUE, TRUE, NoError, map, t, <<>>)
            ELSE
            LET variants == transliterateToAmharic(Str(queryTrimmed), TRUE, TRUE, map, t)
            IN  IF ~variants.ok
                THEN Verdict(FALSE, FALSE, variants.error, variants.cache, variants.trie, <<>>)
                ELSE Verdict(TRUE,
                             \/ variantsMatch(name.chars, variants.value, options)
                             \/ dictionaryMatch(name.chars, nameToCheck, queryTrimmed, options),
                             NoError, variants.cache, variants.trie, variants.hitKey)

\* A loop that puts each variant in front of the terms collected so far.
RECURSIVE addVariantsInFront(_, _, _)
addVariantsInFront(searchTerms, amharicVariants, sanitized) ==
    IF amharicVariants = <<>> THEN searchTerms
    ELSE addVariantsInFront(IF Contains(searchTerms, Head(amharicVariants))
                            THEN searchTerms
                            ELSE <<Head(amharicVariants)>> \o searchTerms,
                            Tail(amharicVariants), sanitized)

\* expandSearchQuery(query): [ok, value, error, cache, trie].
RECURSIVE addVariants(_, _, _)
addVariants(searchTerms, amharicVariants, sanitized) ==
    IF amharicVariants = <<>> THEN searchTerms
    ELSE LET variant == Head(amharicVariants)
         IN  addVariants(IF Len(variant) >= 2 \/ Len(sanitized) = 1
                         THEN SetAdd(searchTerms, variant)
                         ELSE searchTerms,
                         Tail(amharicVariants), sanitized)

expandSearchQuery(query, map, t) ==
    LET sanitized == validateSearchQuery(query)
    IN  IF ~sanitized.ok THEN Verdict(FALSE, <<>>, sanitized.error, map, t, <<>>)
        ELSE IF sanitized.value = <<>> THEN Verdict(TRUE, <<>>, NoError, map, t, <<>>)
        ELSE
        LET variants == transliterateToAmharic(Str(sanitized.value), TRUE, TRUE, map, t)
        IN  IF ~variants.ok
            THEN Verdict(FALSE, <<>>, variants.error, variants.cache, variants.trie, <<>>)
            ELSE Verdict(TRUE, addVariants(<<sanitized.value>>, variants.value, sanitized.value),
                         NoError, variants.cache, variants.trie, variants.hitKey)

\* A reset that drops the oldest entry only.
clearCacheOldestOnly(map) == IF map = <<>> THEN map ELSE Tail(map)

clearCache(map) == <<>>

(***************************************************************************)
(* Inputs of the calls                                                     *)
(***************************************************************************)
amanuel == <<97,109,97,110,117,101,108>>

mariam == <<109,97,114,105,97,109>>

aman == <<97,109,97,110>>

\* " Aman": a text that normalizes to "aman".
PaddedAman == <<32,65,109,97,110>>

Amanuel == <<65,109,97,110,117,101,108>>

AMANUEL == <<65,77,65,78,85,69,76>>

\* "Amanuel Tsegaye" and "AmanuelTsegaye".
AmanuelTsegaye == <<65,109,97,110,117,101,108,32,84,115,101,103,97,121,101>>

AmanuelTsegayeJoined == <<65,109,97,110,117,101,108,84,115,101,103,97,121,101>>

John == <<74,111,104,110>>

john == <<106,111,104,110>>

xamanuelx == <<120,97,109,97,110,117,101,108,120>>

\* "xyzabc" and "xyzabdc": one insertion apart, neither contains the other.
xyzabc == <<120,121,122,97,98,99>>

xyzabdc == <<120,121,122,97,98,100,99>>

\* "tadese": the key "tadesse" with a letter missing.
tadese == <<116,97,100,101,115,101>>

amanuell == <<97,109,97,110,117,101,108,108>>

Ama == <<65,109,97>>

\* "Ama Tseg"
AmaTseg == <<65,109,97,32,84,115,101,103>>

\* "qxz": none of its letters occurs in a dictionary key.
qxz == <<113,120,122>>

\* "qx xq": two words of two letters that occur in no dictionary key.
qxXq == <<113,120,32,120,113>>

\* "ma": the start of 'mariam', and its last letter the start of 'amanuel'.
ma == <<109,97>>

\* "amanuel xyz": the romanized 'አማኑኤል' followed by a word that is not in the name.
amanuelXyz == <<97,109,97,110,117,101,108,32,120,121,122>>

\* The name of README.md written with two Ethiopic words (amanuel tsagaye).
EthAmanuelTsegaye == <<4768,4635,4753,4772,4621,32,4928,4875,4844>>

\* Two spaces.
Blank == <<32,32>>

\* A name of 1001 characters, one more than matchesName allows.
LongName == [i \in 1..1001 |-> 97]

\* "tas": written "tes" in the key "tesfaye".
tas == <<116,97,115>>

\* "nuel": inside "amanuel", and no key starts with it or with one of its suffixes.
nuel == <<110,117,101,108>>

\* U+1361 ETHIOPIC WORDSPACE: an Ethiopic character AMHARIC_TO_ASCII does not map.
EthiopicWordspace == <<4961>>

\* "\x01": a control character that is not white space.
ControlOnly == <<1>>

DictionaryKeys == {COMMON_NAMES[k][1] : k \in 1..Len(COMMON_NAMES)}

DictionaryValues == {COMMON_NAMES[k][2] : k \in 1..Len(COMMON_NAMES)}

\* The largest maxDistance option tried.
MaxDistance == 3

\* The free slots a warmed-up cache starts with.
Headroom == 1

\* The decimal digits of n as a string: the texts "1", "2", ... that warm the cache up.
RECURSIVE Decimal(_)
Decimal(n) == IF n < 10 THEN <<48 + n>> ELSE Append(Decimal(n \div 10), 48 + (n % 10))

\* The cache after transliterateToAmharic(seed) and then transliterateToAmharic("1"),
\* ..., transliterateToAmharic(String(n)): no digit string is in the trie, so each of
\* these calls misses and stores the empty array.
WarmCache(seed, n) ==
    <<[key |-> CacheKey(seed, TRUE),
       value |-> collectResults(fromMappings(COMMON_NAMES), seed, TRUE)]>>
    \o [i \in 1..n |-> [key |-> CacheKey(Decimal(i), TRUE), value |-> <<>>]]

\* Every setting of the options; maxDistance is varied where fuzzy reads it.
MatchOptions ==
    {o \in [caseSensitive : BOOLEAN, wholeWord : BOOLEAN, fuzzy : BOOLEAN,
            maxDistance : 0..MaxDistance, phonetic : BOOLEAN] :
        o.fuzzy \/ o.maxDistance = DefaultMatchOptions.maxDistance}

\* The calls of Spec: few arguments, so that every order of cache insertions is
\* explored.  <<englishText, includePartialMatches, enableCache>>.
TextInputs ==
    {<<Str(mariam), TRUE, TRUE>>, <<Str(mariam), TRUE, FALSE>>, <<Str(mariam), FALSE, TRUE>>,
     <<Str(PaddedAman), TRUE, TRUE>>, <<Str(PaddedAman), FALSE, TRUE>>,
     <<Str(PaddedAman), FALSE, FALSE>>, <<Null, TRUE, TRUE>>}

QueryInputs == {Str(mariam), Str(<<>>), Str(ControlOnly)}

MatchInputs ==
    {<<Str(COMMON_NAMES[5][2]), Str(mariam), DefaultMatchOptions>>,
     <<Str(John), Str(aman), DefaultMatchOptions>>,
     <<Str(Amanuel), Str(Blank), DefaultMatchOptions>>,
     <<Null, Str(aman), DefaultMatchOptions>>,
     <<Number, Null, DefaultMatchOptions>>,
     <<Str(<<>>), Str(mariam), DefaultMatchOptions>>,
     <<Str(Blank), Str(<<>>), DefaultMatchOptions>>,
     <<Str(ControlOnly), Str(aman), DefaultMatchOptions>>,
     <<Str(LongName), Str(mariam), DefaultMatchOptions>>}

\* The calls of SpecIsolated: many arguments, each call on the initial state.
\* <<name, query>>: every dictionary pair in both directions, and the other names
\* with the other queries.
IsolatedNames ==
    {Amanuel, AMANUEL, AmanuelTsegaye, AmanuelTsegayeJoined, John, xamanuelx, xyzabc, tadese,
     COMMON_NAMES[1][2], EthAmanuelTsegaye}

IsolatedQueries ==
    {Str(s) : s \in {amanuel, Amanuel, COMMON_NAMES[1][2], Ama, AmaTseg, john, xyzabdc,
                     COMMON_NAMES[2][1], nuel, EthiopicWordspace, <<>>, Blank, ControlOnly}}
    \cup {Null, Undefined}

IsolatedPairs ==
    {<<Str(COMMON_NAMES[k][1]), Str(COMMON_NAMES[k][2])>> : k \in 1..Len(COMMON_NAMES)}
    \cup {<<Str(COMMON_NAMES[k][2]), Str(COMMON_NAMES[k][1])>> : k \in 1..Len(COMMON_NAMES)}
    \cup {<<Str(name), query>> : name \in IsolatedNames, query \in IsolatedQueries}
    \cup {<<Str(COMMON_NAMES[3][1]), Str(tas)>>}
    \cup {<<Str(COMMON_NAMES[1][2]), Str(amanuelXyz)>>}
    \cup {<<Str(name), Str(qxz)>> : name \in {Amanuel, tadese, John}}
    \cup {<<Str(EthAmanuelTsegaye), Str(qxXq)>>}

ExpandQueries == IsolatedQueries \cup {Str(k) : k \in DictionaryKeys \cup {PaddedAman}}

IsolatedTexts ==
    {Str(s) : s \in DictionaryKeys \cup {aman, PaddedAman, AMANUEL, john, ma, <<>>, Blank,
                                          ControlOnly, LongName}}
    \cup {Null, Undefined, Number}

(***************************************************************************)
(* The state machine                                                       *)
(***************************************************************************)
Init ==
    /\ \/ cache = <<>> /\ nameTrie = NullTrie
       \/ /\ cache = WarmCache(mariam, MAX_CACHE_SIZE - Headroom - 1)
          /\ nameTrie = getNameTrie(NullTrie)
    /\ ret = [op |-> "none"]
    /\ lastHit = <<>>
    /\ inserted = <<>>

Hit(r) == IF r.hitKey # <<>> THEN r.hitKey ELSE lastHit

TransliterateToAmharic(englishText, includePartialMatches, enableCache) ==
    \E r \in {transliterateToAmharic(englishText, includePartialMatches, enableCache,
                                     cache, nameTrie)} :
        /\ cache' = r.cache
        /\ nameTrie' = r.trie
        /\ lastHit' = Hit(r)
        /\ ret' = [op |-> "transliterateToAmharic", englishText |-> englishText,
                   includePartialMatches |-> includePartialMatches,
                   enableCache |-> enableCache,
                   ok |-> r.ok, value |-> r.value, error |-> r.error,
                   hit |-> r.hitKey # <<>>]
        /\ UNCHANGED inserted

MatchesName(name, query, options) ==
    \E r \in {matchesName(name, query, options, cache, nameTrie)} :
        /\ cache' = r.cache
        /\ nameTrie' = r.trie
        /\ lastHit' = Hit(r)
        /\ ret' = [op |-> "matchesName", name |-> name, query |-> query,
                   options |-> options, ok |-> r.ok, value |-> r.value, error |-> r.error]
        /\ UNCHANGED inserted

ExpandSearchQuery(query) ==
    \E r \in {expandSearchQuery(query, cache, nameTrie)} :
        /\ cache' = r.cache
        /\ nameTrie' = r.trie
        /\ lastHit' = Hit(r)
        /\ ret' = [op |-> "expandSearchQuery", query |-> query,
                   ok |-> r.ok, value |-> r.value, error |-> r.error]
        /\ UNCHANGED inserted

ClearCache ==
    /\ cache' = clearCache(cache)
    /\ lastHit' = <<>>
    /\ ret' = [op |-> "clearCache"]
    /\ UNCHANGED <<nameTrie, inserted>>

Next ==
    \/ \E call \in TextInputs : TransliterateToAmharic(call[1], call[2], call[3])
    \/ \E call \in MatchInputs : MatchesName(call[1], call[2], call[3])
    \/ \E query \in QueryInputs : ExpandSearchQuery(query)
    \/ ClearCache

Spec == Init /\ [][Next]_vars

\* One call from the initial state: the operations as functions of their arguments.
InitIsolated ==
    /\ cache = <<>>
    /\ nameTrie = NullTrie
    /\ ret = [op |-> "none"]
    /\ lastHit = <<>>
    /\ inserted = <<>>

Fresh == ret.op = "none"

NextIsolated ==
    \/ Fresh /\ \E englishText \in IsolatedTexts, includePartialMatches \in BOOLEAN,
                   enableCache \in BOOLEAN :
                   TransliterateToAmharic(englishText, includePartialMatches, enableCache)
    \/ Fresh /\ \E call \in IsolatedPairs, options \in MatchOptions :
                   MatchesName(call[1], call[2], options)
    \/ Fresh /\ \E query \in ExpandQueries : ExpandSearchQuery(query)

SpecIsolated == InitIsolated /\ [][NextIsolated]_vars

\* A NameTrie of its own: new NameTrie() followed by insert calls, or the trie
\* NameTrie.fromMappings(COMMON_NAMES), which is only read after it is built.
\* Keys 'ab', 'AB', 'abc', 'b' and '' share prefixes and differ in case.
TrieKeys == {<<97,98>>, <<65,66>>, <<97,98,99>>, <<98>>, <<>>}

\* 'አ' and 'በ'.
TrieValues == {<<4768>>, <<4704>>}

xamanuelz == <<120,97,109,97,110,117,101,108,122>>

\* '', 'A', 'ab', 'aB', 'abc', 'bc', 'xab', 'xabz', 'aman', 'xamanuelz'.
TrieQueries ==
    {<<>>, <<65>>, <<97,98>>, <<97,66>>, <<97,98,99>>, <<98,99>>,
     <<120,97,98>>, <<120,97,98,122>>, aman, xamanuelz}

\* The largest number of insert calls on the new trie.
MaxInserts == 3

InitTrie ==
    /\ cache = <<>>
    /\ lastHit = <<>>
    /\ ret = [op |-> "none"]
    /\ \/ nameTrie = [isNull |-> FALSE, nodes |-> NewTrie] /\ inserted = <<>>
       \/ nameTrie = [isNull |-> FALSE, nodes |-> fromMappings(COMMON_NAMES)]
          /\ inserted = COMMON_NAMES

Insert(english, amharic) ==
    /\ Len(inserted) < MaxInserts
    /\ nameTrie' = [nameTrie EXCEPT !.nodes = insert(@, english, amharic)]
    /\ inserted' = Append(inserted, <<english, amharic>>)
    /\ ret' = [op |-> "insert", english |-> english, amharic |-> amharic]
    /\ UNCHANGED <<cache, lastHit>>

SearchExact(query) ==
    /\ ret' = [op |-> "searchExact", query |-> query,
               value |-> searchExact(nameTrie.nodes, query)]
    /\ UNCHANGED <<cache, nameTrie, lastHit, inserted>>

SearchPrefix(prefix) ==
    /\ ret' = [op |-> "searchPrefix", query |-> prefix,
               value |-> searchPrefix(nameTrie.nodes, prefix)]
    /\ UNCHANGED <<cache, nameTrie, lastHit, inserted>>

SearchContains(query) ==
    /\ ret' = [op |-> "searchContains", query |-> query,
               value |-> searchContains(nameTrie.nodes, query)]
    /\ UNCHANGED <<cache, nameTrie, lastHit, inserted>>

NextTrie ==
    \/ \E english \in TrieKeys, amharic \in TrieValues : Insert(english, amharic)
    \/ \E query \in TrieQueries : SearchExact(query)
    \/ \E prefix \in TrieQueries : SearchPrefix(prefix)
    \/ \E query \in TrieQueries : SearchContains(query)

SpecTrie == InitTrie /\ [][NextTrie]_vars

\* The string functions on their own: one call of matchesTransliterationVariant,
\* transliterationAwareDistance, levenshteinDistance or romanizeAmharicToAscii.
\* The letters 'a', 'e', 's', 'z' and 'A': vowels, a consonant-variant pair and a
\* capital.
Letters == {97, 101, 115, 122, 65}

\* The longest string built from Letters.
MaxLen == 2

LetterStrings == UNION {[1..n -> Letters] : n \in 0..MaxLen}

tes == <<116,101,115>>

salam == <<115,97,108,97,109>>

selam == <<115,101,108,97,109>>

\* Five vowel swaps (1.5), and a t/d swap followed by five vowel swaps (2.0).
aaaaa == <<97,97,97,97,97>>

eeeee == <<101,101,101,101,101>>

taaaaa == <<116,97,97,97,97,97>>

deeeee == <<100,101,101,101,101,101>>

\* 'tsag' and 'xyzw': two and four plain substitutions away from 'tseg' and 'tsag'.
tsag == <<116,115,97,103>>

tseg == <<116,115,101,103>>

tsxy == <<116,115,120,121>>

xyzw == <<120,121,122,119>>

StringPairs ==
    (LetterStrings \X LetterStrings)
    \cup {<<tas, tes>>, <<salam, selam>>, <<aaaaa, eeeee>>, <<taaaaa, deeeee>>,
          <<tsag, tseg>>, <<tsxy, tseg>>, <<xyzw, tsag>>, <<Ama, aman>>, <<tas, <<>>>>}

\* maxDistance arguments in tenths: 0, 0.3, 0.5, 1, 1.5 (the default) and 2.0.
VariantDistances == {0, 3, 5, 10, 15, 20}

\* Texts of romanizeAmharicToAscii: every character of the Ethiopic block on its
\* own, and the strings of 'አ', 'ል', '፡' (not in the table), ' ', tab, 'A', '7'
\* and '-'.
TextCharacters == {4768, 4621, 4961, 32, 9, 65, 55, 45}

\* The longest text built from TextCharacters.
MaxTextLen == 4

RomanizedTexts ==
    UNION {[1..n -> TextCharacters] : n \in 0..MaxTextLen}
    \cup {<<ch>> : ch \in 4608..4991}
    \cup {COMMON_NAMES[k][2] : k \in 1..Len(COMMON_NAMES)}
    \cup {EthAmanuelTsegaye}

MatchesTransliterationVariant(str1, str2, maxDistance) ==
    /\ ret' = [op |-> "matchesTransliterationVariant", str1 |-> str1, str2 |-> str2,
               maxDistance |-> maxDistance,
               value |-> matchesTransliterationVariant(str1, str2, maxDistance)]
    /\ UNCHANGED <<cache, nameTrie, lastHit, inserted>>

TransliterationAwareDistance(str1, str2) ==
    /\ ret' = [op |-> "transliterationAwareDistance", str1 |-> str1, str2 |-> str2,
               value |-> transliterationAwareDistance(str1, str2)]
    /\ UNCHANGED <<cache, nameTrie, lastHit, inserted>>

LevenshteinDistance(str1, str2) ==
    /\ ret' = [op |-> "levenshteinDistance", str1 |-> str1, str2 |-> str2,
               value |-> levenshteinDistance(str1, str2)]
    /\ UNCHANGED <<cache, nameTrie, lastHit, inserted>>

RomanizeAmharicToAscii(input) ==
    /\ ret' = [op |-> "romanizeAmharicToAscii", input |-> input,
               value |-> romanizeAmharicToAscii(input)]
    /\ UNCHANGED <<cache, nameTrie, lastHit, inserted>>

NextFunctions ==
    \/ Fresh /\ \E pair \in StringPairs, maxDistance \in VariantDistances :
                   MatchesTransliterationVariant(pair[1], pair[2], maxDistance)
    \/ Fresh /\ \E pair \in StringPairs : TransliterationAwareDistance(pair[1], pair[2])
    \/ Fresh /\ \E pair \in StringPairs : LevenshteinDistance(pair[1], pair[2])
    \/ Fresh /\ \E input \in RomanizedTexts : RomanizeAmharicToAscii(input)

SpecFunctions == InitIsolated /\ [][NextFunctions]_vars

\* A caller that keeps the array a transliterateToAmharic call returned and changes
\* it in place.  With enableCache the function returns `cached`, or `resultArray`
\* after setCache(cacheKey, resultArray): in both cases the array object that the
\* Map holds under cacheKey, so a change of the array is a change of the entry.

\* Array.prototype.push(item)
push(array, item) == Append(array, item)

\* The order of Array.prototype.sort() without a comparator: by code units.
RECURSIVE precedes(_, _)
precedes(a, b) ==
    IF a = <<>> THEN b # <<>>
    ELSE IF b = <<>> THEN FALSE
    ELSE IF Head(a) = Head(b) THEN precedes(Tail(a), Tail(b))
    ELSE Head(a) < Head(b)

\* Array.prototype.sort()
RECURSIVE sort(_)
sort(array) ==
    IF array = <<>> THEN <<>>
    ELSE LET rest == sort(Tail(array))
         IN  SelectSeq(rest, LAMBDA x : precedes(x, Head(array)))
             \o <<Head(array)>>
             \o SelectSeq(rest, LAMBDA x : ~precedes(x, Head(array)))

\* Array.prototype.splice(start, deleteCount), 0 <= start, 0 <= deleteCount.
splice(array, start, deleteCount) ==
    SubSeq(array, 1, Min(start, Len(array)))
    \o SubSeq(array, Min(start, Len(array)) + deleteCount + 1, Len(array))

MaxArrayLen == 3

PushedItems == {COMMON_NAMES[2][2]}

\* The changes the caller makes to the array it holds.
Modified(array) ==
    {push(array, item) : item \in PushedItems} \cup {sort(array), splice(array, 0, 1)}

\* The cache key under which the array returned by the last call is stored.
HeldKey ==
    CacheKey(trim(toLowerCase(validateAndSanitizeInput(ret.englishText,
                                                       MAX_INPUT_LENGTH).value)),
             ret.includePartialMatches)

\* The caller holds the array of the last transliterateToAmharic call, which is the
\* array of the cache entry, and changes it.
CallerModifiesArray ==
    /\ ret.op \in {"transliterateToAmharic", "callerModifiesArray"}
    /\ ret.ok /\ ret.enableCache
    /\ MapHas(cache, HeldKey)
    /\ \E array \in Modified(ret.value) :
           /\ Len(array) <= MaxArrayLen
           /\ array # ret.value
           /\ cache' = [cache EXCEPT ![MapIndex(cache, HeldKey)].value = array]
           /\ ret' = [ret EXCEPT !.op = "callerModifiesArray", !.value = array]
    /\ UNCHANGED <<nameTrie, lastHit, inserted>>

CallerTexts == {Str(amanuel), Str(ma)}

CallerPairs ==
    {<<Str(COMMON_NAMES[2][2]), Str(amanuel)>>, <<Str(COMMON_NAMES[1][2]), Str(amanuel)>>,
     <<Str(COMMON_NAMES[1][2]), Str(ma)>>, <<Str(John), Str(ma)>>}

NextCaller ==
    \/ \E englishText \in CallerTexts, enableCache \in BOOLEAN :
           TransliterateToAmharic(englishText, TRUE, enableCache)
    \/ \E call \in CallerPairs : MatchesName(call[1], call[2], DefaultMatchOptions)
    \/ \E query \in CallerTexts : ExpandSearchQuery(query)
    \/ CallerModifiesArray

SpecCaller == InitIsolated /\ [][NextCaller]_vars

(***************************************************************************)
(* Properties                                                              *)
(***************************************************************************)
IsDictionaryPair(english, amharic) ==
    \E k \in 1..Len(COMMON_NAMES) :
        english = Str(COMMON_NAMES[k][1]) /\ amharic = Str(COMMON_NAMES[k][2])

\* C1: for every pair (english, amharic) of the dictionary, matchesName(amharic,
\* english) and matchesName(english, amharic) return true with default options.
DictionaryPairsMatchBothWays ==
    (/\ ret.op = "matchesName"
     /\ ret.options = DefaultMatchOptions
     /\ IsDictionaryPair(ret.name, ret.query) \/ IsDictionaryPair(ret.query, ret.name))
    => (ret.ok /\ ret.value = TRUE)

\* matchesName('ዮሐንስ', 'yohannes') and its answer.
DictionaryPairMatched ==
    /\ ret.op = "matchesName"
    /\ ret.options = DefaultMatchOptions
    /\ ret.name = Str(COMMON_NAMES[4][2])
    /\ ret.query = Str(COMMON_NAMES[4][1])
    /\ ret.ok /\ ret.value = TRUE

\* The name and the query of the last matchesName call as the stages compare them.
NormalizedName == trim(foldCase(validateAndSanitizeInput(ret.name, 1000).value, ret.options))

NormalizedQuery == trim(foldCase(validateSearchQuery(ret.query).value, ret.options))

\* C2: with wholeWord: true, matchesName returns exactly whether the normalized name
\* equals the normalized query; no later stage turns a difference into a match.
WholeWordIsEquality ==
    (ret.op = "matchesName" /\ ret.options.wholeWord /\ ret.ok)
    => (ret.value = (NormalizedName = NormalizedQuery))

\* matchesName('xamanuelx', 'አማኑኤል', {wholeWord: true}) answered true.
WholeWordMatchedUnequal ==
    /\ ret.op = "matchesName"
    /\ ret.options = [DefaultMatchOptions EXCEPT !.wholeWord = TRUE]
    /\ ret.name = Str(xamanuelx)
    /\ ret.query = Str(COMMON_NAMES[1][2])
    /\ ret.ok /\ ret.value = TRUE

\* A non-empty string that is empty once control characters are stripped and the
\* rest is trimmed.
OnlyBadCharacters(query) ==
    /\ query.type = "string"
    /\ query.chars # <<>>
    /\ Len(query.chars) <= MAX_QUERY_LENGTH
    /\ trim(removeControlCharacters(query.chars)) = <<>>

\* C3: a query rejected for bad characters never makes matchesName or
\* expandSearchQuery throw: matchesName returns false, expandSearchQuery returns [].
BadCharacterQueryNeverThrows ==
    /\ (ret.op = "matchesName" /\ OnlyBadCharacters(ret.query)
            /\ validateAndSanitizeInput(ret.name, 1000).ok)
       => (ret.ok /\ ret.value = FALSE)
    /\ (ret.op = "expandSearchQuery" /\ OnlyBadCharacters(ret.query))
       => (ret.ok /\ ret.value = <<>>)

\* matchesName('Amanuel', '\x01') threw a ValidationError.
BadCharacterQueryThrew ==
    /\ ret.op = "matchesName"
    /\ ret.name = Str(Amanuel)
    /\ ret.query = Str(ControlOnly)
    /\ ~ret.ok
    /\ ret.error.name = "ValidationError"

\* A query that is empty after validation and trimming.
EmptyQuery(query) ==
    \/ query.type \in {"null", "undefined"}
    \/ query.type = "string" /\ trim(query.chars) = <<>>

\* C4: matchesName returns false for every valid name and every combination of
\* options when the query is the empty string, whitespace only, null or undefined.
EmptyQueryNeverMatches ==
    (/\ ret.op = "matchesName"
     /\ EmptyQuery(ret.query)
     /\ validateAndSanitizeInput(ret.name, 1000).ok)
    => (ret.ok /\ ret.value = FALSE)

\* matchesName('Amanuel', '   ', {fuzzy: true, phonetic: true, ...}) answered false.
BlankQueryAnswered ==
    /\ ret.op = "matchesName"
    /\ ret.name = Str(Amanuel)
    /\ ret.query = Str(Blank)
    /\ ret.options.fuzzy /\ ret.options.phonetic
    /\ ret.ok /\ ret.value = FALSE

\* The variants an uncached computation returns for a text and a flag.
Uncached(englishText, includePartialMatches) ==
    Elements(transliterateToAmharic(englishText, includePartialMatches, FALSE,
                                    <<>>, NullTrie).value)

\* The text and the flag a cache key was built from.
KeyIsPartial(key) == Len(key) >= 5 /\ SubSeq(key, Len(key) - 4, Len(key)) = <<58,116,114,117,101>>

KeyText(key) == SubSeq(key, 1, Len(key) - (IF KeyIsPartial(key) THEN 5 ELSE 6))

\* C5: after any sequence of calls, every transliterateToAmharic call returns the set
\* of variants an uncached computation returns for the same text and the same
\* includePartialMatches; the entry stored last, also by a call made inside
\* matchesName or expandSearchQuery, holds that set as well.
CachedEqualsUncached ==
    /\ (ret.op = "transliterateToAmharic" /\ ret.ok)
       => Elements(ret.value) = Uncached(ret.englishText, ret.includePartialMatches)
    /\ cache # <<>>
       => LET last == cache[Len(cache)]
          IN  /\ last.key = CacheKey(KeyText(last.key), KeyIsPartial(last.key))
              /\ Elements(last.value) = Uncached(Str(KeyText(last.key)), KeyIsPartial(last.key))

\* transliterateToAmharic('  Aman ') answered from the cache with a variant.
AnsweredFromCache ==
    /\ ret.op = "transliterateToAmharic"
    /\ ret.englishText = Str(PaddedAman)
    /\ ret.includePartialMatches /\ ret.enableCache
    /\ ret.hit
    /\ ret.value # <<>>

\* C6: in every reachable state the cache holds at most 1000 entries.
CacheWithinCapacity == Len(cache) <= MAX_CACHE_SIZE

\* A full cache after two evictions.
CacheFullAfterEvictions ==
    /\ Len(cache) = MAX_CACHE_SIZE
    /\ cache[1].key = CacheKey(Decimal(2), TRUE)

IsAscii(v) == v.type = "string" /\ \A i \in 1..Len(v.chars) : v.chars[i] \in 0..127

\* C8: with caseSensitive: false, matchesName(a, b) equals
\* matchesName(a.toUpperCase(), b.toLowerCase()) for ASCII strings a and b, under
\* every setting of the other options (a call that throws, throws in both forms).
CaseOfLettersIgnored ==
    (/\ ret.op = "matchesName"
     /\ ~ret.options.caseSensitive
     /\ IsAscii(ret.name) /\ IsAscii(ret.query))
    => LET other == matchesName(Str(toUpperCase(ret.name.chars)),
                                Str(toLowerCase(ret.query.chars)),
                                ret.options, <<>>, NullTrie)
       IN  other.ok = ret.ok /\ other.value = ret.value

\* matchesName('Amanuel', 'Amanuel', {wholeWord: true}) answered true, and so does
\* matchesName('AMANUEL', 'amanuel', {wholeWord: true}).
MixedCaseMatched ==
    /\ ret.op = "matchesName"
    /\ ret.options = [DefaultMatchOptions EXCEPT !.wholeWord = TRUE]
    /\ ret.name = Str(Amanuel)
    /\ ret.query = Str(Amanuel)
    /\ ret.ok /\ ret.value = TRUE
    /\ matchesName(Str(AMANUEL), Str(amanuel), ret.options, <<>>, NullTrie).value = TRUE

\* The verdict of the last matchesName call's arguments with another maxDistance.
VerdictAtDistance(d) ==
    matchesName(ret.name, ret.query, [ret.options EXCEPT !.maxDistance = d],
                <<>>, NullTrie).value

\* C9: if matchesName(a, b, {fuzzy: true, maxDistance: d}) is true, it is true for
\* every d2 > d with the same other options.
LargerDistanceKeepsMatch ==
    (ret.op = "matchesName" /\ ret.options.fuzzy /\ ret.ok /\ ret.value = TRUE)
    => \A d2 \in (ret.options.maxDistance + 1)..(MaxDistance + 1) : VerdictAtDistance(d2) = TRUE

\* matchesName('xyzabc', 'xyzabdc', {fuzzy: true, maxDistance: 1}) answered true, and
\* false with maxDistance 0.
MatchedAtDistanceOne ==
    /\ ret.op = "matchesName"
    /\ ret.name = Str(xyzabc)
    /\ ret.query = Str(xyzabdc)
    /\ ret.options = [DefaultMatchOptions EXCEPT !.fuzzy = TRUE, !.maxDistance = 1]
    /\ ret.ok /\ ret.value = TRUE
    /\ VerdictAtDistance(0) = FALSE

\* C10: for a dictionary key k, expandSearchQuery(k) returns exactly [k, value of k]
\* and transliterateToAmharic(k) returns exactly [value of k].
KeyExpandsToItsValueOnly ==
    \A k \in 1..Len(COMMON_NAMES) :
        /\ (ret.op = "expandSearchQuery" /\ ret.query = Str(COMMON_NAMES[k][1]))
           => (ret.ok /\ ret.value = <<COMMON_NAMES[k][1], COMMON_NAMES[k][2]>>)
        /\ (/\ ret.op = "transliterateToAmharic"
            /\ ret.englishText = Str(COMMON_NAMES[k][1])
            /\ ret.includePartialMatches /\ ret.enableCache)
           => (ret.ok /\ ret.value = <<COMMON_NAMES[k][2]>>)

\* expandSearchQuery('mariam') returned ['mariam', 'ማርያም', 'አማኑኤል'].
KeyExpandedToAnotherValue ==
    /\ ret.op = "expandSearchQuery"
    /\ ret.query = Str(mariam)
    /\ ret.ok
    /\ ret.value = <<mariam, COMMON_NAMES[5][2], COMMON_NAMES[1][2]>>

NoTermTwice(terms) == \A i, j \in 1..Len(terms) : terms[i] = terms[j] => i = j

\* C11: for every non-empty valid query q, expandSearchQuery(q) has the sanitized
\* form of q as its first element and holds no term twice.
ExpansionStartsWithQuery ==
    (ret.op = "expandSearchQuery"
        /\ validateAndSanitizeInput(ret.query, MAX_QUERY_LENGTH).ok)
    => /\ ret.ok
       /\ ret.value # <<>>
       /\ ret.value[1] = validateAndSanitizeInput(ret.query, MAX_QUERY_LENGTH).value
       /\ NoTermTwice(ret.value)

\* expandSearchQuery(' Aman') returned ['Aman', 'አማኑኤል'].
PaddedQueryExpanded ==
    /\ ret.op = "expandSearchQuery"
    /\ ret.query = Str(PaddedAman)
    /\ ret.ok
    /\ ret.value = <<trim(PaddedAman), COMMON_NAMES[1][2]>>

\* The name has Ethiopic characters, the query has none, and the romanization of the
\* name contains the lowercased query.
RomanizedNameContainsQuery ==
    /\ containsAmharic(ret.name.chars) /\ ~containsAmharic(ret.query.chars)
    /\ includes(romanizeAmharicToAscii(ret.name.chars), toLowerCase(ret.query.chars))

\* The query has Ethiopic characters, the name has none, and the lowercased name
\* contains the romanization of the query.
NameContainsRomanizedQuery ==
    /\ containsAmharic(ret.query.chars) /\ ~containsAmharic(ret.name.chars)
    /\ includes(toLowerCase(ret.name.chars), romanizeAmharicToAscii(ret.query.chars))

PlainSameScriptCall ==
    /\ ret.op = "matchesName"
    /\ ret.name.type = "string" /\ ret.query.type = "string"
    /\ ~containsAmharic(ret.name.chars) /\ ~containsAmharic(ret.query.chars)
    /\ ~ret.options.wholeWord /\ ~ret.options.fuzzy /\ ~ret.options.phonetic

\* One normalized string contains the other, or the name's prefix of the query's
\* length is a transliteration variant of the query within 1.5.
ContainedOrPrefixVariant ==
    \/ includes(NormalizedName, NormalizedQuery) \/ includes(NormalizedQuery, NormalizedName)
    \/ /\ ~ret.options.caseSensitive
       /\ Len(NormalizedQuery) >= 2
       /\ Len(NormalizedName) >= Len(NormalizedQuery)
       /\ matchesTransliterationVariant(substring(NormalizedName, 0, Len(NormalizedQuery)),
                                        NormalizedQuery, 15)

\* C13 as stated: for a name and a query without Ethiopic characters, with wholeWord,
\* fuzzy and phonetic off, matchesName is true exactly when one normalized string
\* contains the other or the prefix-variant test passes, and false otherwise.
SameScriptVerdictIsDirectMatch ==
    PlainSameScriptCall => (ret.ok /\ ret.value = ContainedOrPrefixVariant)

\* C13: the same for a valid name and a valid query that is not empty after
\* normalization.
SameScriptVerdictOfNonEmptyIsDirectMatch ==
    (/\ PlainSameScriptCall
     /\ validateAndSanitizeInput(ret.name, 1000).ok
     /\ validateSearchQuery(ret.query).ok
     /\ NormalizedQuery # <<>>)
    => (ret.ok /\ ret.value = ContainedOrPrefixVariant)

\* matchesName('tesfaye', 'tas') answered true though neither contains the other.
PrefixVariantMatched ==
    /\ ret.op = "matchesName"
    /\ ret.options = DefaultMatchOptions
    /\ ret.name = Str(COMMON_NAMES[3][1])
    /\ ret.query = Str(tas)
    /\ ~includes(NormalizedName, NormalizedQuery)
    /\ ret.ok /\ ret.value = TRUE

\* The whitespace-delimited words of the normalized name.
NameWords == splitWords(NormalizedName, <<>>, <<>>)

\* C14: with wholeWord: true and caseSensitive: false (other options at their
\* defaults), a query that equals one whole word of the name matches, and a query
\* that is only part of a word does not.
WholeWordMatchesWords ==
    (/\ ret.op = "matchesName"
     /\ ret.options = [DefaultMatchOptions EXCEPT !.wholeWord = TRUE]
     /\ ret.ok
     /\ NormalizedQuery # <<>>
     /\ ~containsAmharic(ret.name.chars) /\ ~containsAmharic(ret.query.chars))
    => /\ Contains(NameWords, NormalizedQuery) => ret.value = TRUE
       /\ (/\ ~Contains(NameWords, NormalizedQuery)
           /\ \E w \in 1..Len(NameWords) : includes(NameWords[w], NormalizedQuery))
          => ret.value = FALSE

\* matchesName('Amanuel Tsegaye', 'Amanuel', {wholeWord: true}) answered false.
WholeWordOfNameNotMatched ==
    /\ ret.op = "matchesName"
    /\ ret.options = [DefaultMatchOptions EXCEPT !.wholeWord = TRUE]
    /\ ret.name = Str(AmanuelTsegaye)
    /\ ret.query = Str(Amanuel)
    /\ Contains(NameWords, NormalizedQuery)
    /\ ret.ok /\ ret.value = FALSE

\* A value the validator rejects with the maximum length maxLength: not a string,
\* empty, too long, or empty once control characters are stripped and it is trimmed.
Rejected(v, maxLength) ==
    \/ v.type # "string"
    \/ v.chars = <<>>
    \/ Len(v.chars) > maxLength
    \/ trim(removeControlCharacters(v.chars)) = <<>>

\* C15: matchesName raises ValidationError whenever the name is rejected, whatever
\* the query is, and the failing call leaves the cache unchanged.
InvalidNameRaises ==
    [][(ret'.op = "matchesName" /\ Rejected(ret'.name, 1000))
        => (/\ ~ret'.ok
            /\ ret'.error.name = "ValidationError"
            /\ cache' = cache)]_vars

\* matchesName of a name of 1001 characters threw and the filled cache is in place.
LongNameRaised ==
    /\ ret.op = "matchesName"
    /\ ret.name = Str(LongName)
    /\ ~ret.ok
    /\ ret.error.name = "ValidationError"
    /\ Len(cache) = MAX_CACHE_SIZE

\* C16 as stated: transliterateToAmharic fails with ValidationError for every text
\* the validator rejects: not a string, empty, longer than 1000, or empty once
\* control characters are stripped.
RejectedTextRaises ==
    (ret.op = "transliterateToAmharic" /\ Rejected(ret.englishText, MAX_INPUT_LENGTH))
    => (~ret.ok /\ ret.error.name = "ValidationError")

\* A string that is empty once trimmed.
BlankText(v) == v.type = "string" /\ trim(v.chars) = <<>>

\* C16: transliterateToAmharic returns [] for an empty or blank string, and fails
\* with ValidationError for every other text the validator rejects.
RejectedTextRaisesUnlessBlank ==
    ret.op = "transliterateToAmharic"
    => /\ BlankText(ret.englishText) => (ret.ok /\ ret.value = <<>>)
       /\ (Rejected(ret.englishText, MAX_INPUT_LENGTH) /\ ~BlankText(ret.englishText))
          => (~ret.ok /\ ret.error.name = "ValidationError")

\* transliterateToAmharic('\x01') threw a ValidationError.
ControlOnlyTextRaised ==
    /\ ret.op = "transliterateToAmharic"
    /\ ret.englishText = Str(ControlOnly)
    /\ ~ret.ok
    /\ ret.error.name = "ValidationError"
    /\ ret.error.cause = ERROR_CODES.INVALID_CHARACTERS

\* A string within the length limit with a character that is neither a control
\* character nor white space.
ValidString(v, maxLength) ==
    /\ v.type = "string"
    /\ Len(v.chars) \in 1..maxLength
    /\ \E i \in 1..Len(v.chars) : v.chars[i] \notin ControlCharacters \cup WhiteSpace

\* An array of strings.
IsArray(value) ==
    /\ DOMAIN value = 1..Len(value)
    /\ \A i \in 1..Len(value) : \A j \in 1..Len(value[i]) : value[i][j] \in Nat

\* C17: for every valid name, valid query and combination of options matchesName
\* returns a boolean without throwing; for every valid text transliterateToAmharic
\* and expandSearchQuery return an array without throwing.
ValidCallsReturn ==
    /\ (ret.op = "matchesName" /\ ValidString(ret.name, 1000)
            /\ ValidString(ret.query, MAX_QUERY_LENGTH))
       => (ret.ok /\ ret.value \in BOOLEAN /\ ret.error = NoError)
    /\ (ret.op = "transliterateToAmharic" /\ ValidString(ret.englishText, MAX_INPUT_LENGTH))
       => (ret.ok /\ IsArray(ret.value) /\ ret.error = NoError)
    /\ (ret.op = "expandSearchQuery" /\ ValidString(ret.query, MAX_QUERY_LENGTH))
       => (ret.ok /\ IsArray(ret.value) /\ ret.error = NoError)

\* matchesName('አማኑኤል ፀጋዬ', 'Ama Tseg') with every option set returned a boolean.
AllOptionsCallReturned ==
    /\ ret.op = "matchesName"
    /\ ret.name = Str(EthAmanuelTsegaye)
    /\ ret.query = Str(AmaTseg)
    /\ ret.options = [caseSensitive |-> TRUE, wholeWord |-> TRUE, fuzzy |-> TRUE,
                      maxDistance |-> MaxDistance, phonetic |-> TRUE]
    /\ ret.ok
    /\ ret.value \in BOOLEAN

\* The lowercased key and the variant of the k-th inserted pair.
InsertedKey(k) == toLowerCase(inserted[k][1])

InsertedVariant(k) == inserted[k][2]

\* The variants of the inserted keys that have the lowercased p as a prefix.
PrefixVariants(p) ==
    {InsertedVariant(k) :
        k \in {k \in 1..Len(inserted) : startsWith(InsertedKey(k), toLowerCase(p))}}

\* Key begins with the suffix of the lowercased query that starts at some offset.
BeginsWithSuffix(key, query) ==
    \E i \in 0..(Len(query) - 1) : startsWith(key, substringFrom(toLowerCase(query), i))

SuffixVariants(query) ==
    {InsertedVariant(k) :
        k \in {k \in 1..Len(inserted) : BeginsWithSuffix(InsertedKey(k), query)}}

IsSetOf(value, elements) ==
    Elements(value) = elements /\ Cardinality(elements) = Len(value)

KeysInsideQueryAreFound ==
    ret.op = "searchContains"
    => \A k \in 1..Len(inserted) :
          (InsertedKey(k) # <<>> /\ includes(toLowerCase(ret.query), InsertedKey(k)))
          => InsertedVariant(k) \in Elements(ret.value)

\* C19: the variants of every key that begins with the suffix of the query starting
\* at some offset are in the result of searchContains(query).
KeysBeginningWithSuffixAreFound ==
    ret.op = "searchContains"
    => \A k \in 1..Len(inserted) :
          BeginsWithSuffix(InsertedKey(k), ret.query)
          => InsertedVariant(k) \in Elements(ret.value)

\* searchContains('xab') found key 'abc', which begins with the suffix 'ab' of the
\* query and does not occur in it.
LongerKeyFoundFromSuffix ==
    /\ ret.op = "searchContains"
    /\ ret.query = <<120,97,98>>
    /\ Len(inserted) = 1
    /\ InsertedKey(1) = <<97,98,99>>
    /\ ret.value = <<InsertedVariant(1)>>

\* A node is terminal exactly when an inserted key ends at it, and holds variants
\* only if it is terminal.
TerminalNodesAreKeys ==
    \A path \in DOMAIN nameTrie.nodes :
        /\ nameTrie.nodes[path].isEnd <=> (\E k \in 1..Len(inserted) : InsertedKey(k) = path)
        /\ nameTrie.nodes[path].amharicVariants # <<>> => nameTrie.nodes[path].isEnd

\* searchExact(key) returns every value inserted for the key.
SearchExactReturnsEveryValue ==
    ret.op = "searchExact"
    => IsSetOf(ret.value,
               {InsertedVariant(k) :
                   k \in {k \in 1..Len(inserted) : InsertedKey(k) = toLowerCase(ret.query)}})

\* An insert of a pair that was inserted before leaves the trie as it was.
ReinsertChangesNothing ==
    (inserted' # inserted /\ Contains(inserted, inserted'[Len(inserted')]))
    => nameTrie' = nameTrie

\* C20: after any sequence of insert calls a node is terminal exactly when some
\* inserted key (lowercased) ends at it, a node's variant set is non-empty only if
\* the node is terminal, inserting the same pair again changes nothing, and
\* searchExact(key) returns every value inserted for the key.
InsertKeepsTrieInvariants ==
    /\ [](TerminalNodesAreKeys /\ SearchExactReturnsEveryValue)
    /\ [][ReinsertChangesNothing]_vars

\* searchExact('ab') returned both values of key 'ab' after the first pair was
\* inserted a second time.
SearchExactReturnedBothValues ==
    /\ ret.op = "searchExact"
    /\ ret.query = <<97,98>>
    /\ Len(inserted) = 3
    /\ inserted[3] = inserted[1]
    /\ InsertedKey(2) = InsertedKey(1)
    /\ InsertedVariant(2) # InsertedVariant(1)
    /\ ret.value = <<InsertedVariant(1), InsertedVariant(2)>>

\* The last call was matchesName of an Ethiopic name against a Latin query of
\* several words, and the direct, fuzzy and phonetic stages did not match.
WordsQueryReachedRomanization ==
    /\ ret.op = "matchesName"
    /\ ret.ok
    /\ containsAmharic(NormalizedName)
    /\ ~containsAmharic(NormalizedQuery)
    /\ includes(NormalizedQuery, <<32>>)
    /\ ~directMatch(NormalizedName, NormalizedQuery, ret.options)
    /\ ~fuzzyMatch(NormalizedName, NormalizedQuery, ret.options)
    /\ ~phoneticMatch(NormalizedName, NormalizedQuery, ret.options)

\* Containment or prefix in either direction, or a variant distance of at most 2.0
\* or a Levenshtein distance of at most 2 between the query word and the name
\* word's prefix of the same length.
WordMatchesWord(nameWord, queryWord) ==
    \/ includes(nameWord, queryWord) \/ includes(queryWord, nameWord)
    \/ startsWith(nameWord, queryWord) \/ startsWith(queryWord, nameWord)
    \/ /\ Len(nameWord) >= Len(queryWord)
       /\ \/ transliterationAwareDistance(SubSeq(nameWord, 1, Len(queryWord)), queryWord) <= 20
          \/ levenshteinDistance(SubSeq(nameWord, 1, Len(queryWord)), queryWord) <= 2

EveryQueryWordMatches ==
    \A queryWord \in Elements(splitWords(NormalizedQuery, <<>>, <<>>)) :
        \E nameWord \in Elements(splitWords(romanizeAmharicToAscii(NormalizedName), <<>>, <<>>)) :
            WordMatchesWord(nameWord, queryWord)

AmaTsegMatches ==
    (/\ ret.op = "matchesName"
     /\ ret.name = Str(EthAmanuelTsegaye)
     /\ ret.query = Str(AmaTseg)
     /\ ret.options = DefaultMatchOptions)
    => (ret.ok /\ ret.value = TRUE)

\* C21 as stated: the romanization stage returns true only if every query word
\* matches some word of the romanized name, and matchesName('አማኑኤል ፀጋዬ', 'Ama Tseg')
\* is true.
StageNeedsEveryQueryWord ==
    /\ (WordsQueryReachedRomanization
            /\ romanizedNameMatch(NormalizedName, NormalizedQuery, ret.options))
       => EveryQueryWordMatches
    /\ AmaTsegMatches

\* C21: when the romanization stage returns true for a query of several words,
\* matchesName returns true, and either every query word matches some word of the
\* romanized name, or the query contains the whole romanized name, or fuzzy is set
\* and the whole strings are within the stage's fuzzy thresholds; and
\* matchesName('አማኑኤል ፀጋዬ', 'Ama Tseg') is true.
StageNeedsEveryQueryWordOrWholeName ==
    /\ (WordsQueryReachedRomanization
            /\ romanizedNameMatch(NormalizedName, NormalizedQuery, ret.options))
       => /\ ret.value = TRUE
          /\ \/ EveryQueryWordMatches
             \/ includes(NormalizedQuery, romanizeAmharicToAscii(NormalizedName))
             \/ /\ ret.options.fuzzy
                /\ withinFuzzyThresholds(romanizeAmharicToAscii(NormalizedName), NormalizedQuery,
                                         ret.options.maxDistance, 35, 5)
    /\ AmaTsegMatches

\* matchesName('አማኑኤል ፀጋዬ', 'Ama Tseg') reached the romanization stage and matched
\* word by word.
AmaTsegMatchedByWords ==
    /\ WordsQueryReachedRomanization
    /\ ret.name = Str(EthAmanuelTsegaye)
    /\ ret.query = Str(AmaTseg)
    /\ ret.options = DefaultMatchOptions
    /\ EveryQueryWordMatches
    /\ ~includes(romanizeAmharicToAscii(NormalizedName), NormalizedQuery)
    /\ ret.value = TRUE

\* The substitution charge in tenths: 0, 0.3 for two vowels among a, e, i, u, o,
\* 0.5 for the pairs s/z and t/d, and 1 otherwise.
StatedCharge(c1, c2) ==
    IF c1 = c2 THEN 0
    ELSE IF {c1, c2} \subseteq {97, 101, 105, 117, 111} THEN 3
    ELSE IF {c1, c2} = {115, 122} \/ {c1, c2} = {116, 100} THEN 5
    ELSE 10

\* The cheapest way to turn a into b with insertions and deletions at 1 each and
\* substitutions at the stated charge, in tenths.
RECURSIVE StatedDistance(_, _)
StatedDistance(a, b) ==
    IF a = <<>> THEN 10 * Len(b)
    ELSE IF b = <<>> THEN 10 * Len(a)
    ELSE Min(Min(StatedDistance(Tail(a), b) + 10, StatedDistance(a, Tail(b)) + 10),
             StatedDistance(Tail(a), Tail(b)) + StatedCharge(Head(a), Head(b)))

EqualSubstringOrNear(a, b, maxDistance) ==
    \/ toLowerCase(a) = toLowerCase(b)
    \/ includes(toLowerCase(a), toLowerCase(b))
    \/ includes(toLowerCase(b), toLowerCase(a))
    \/ StatedDistance(toLowerCase(a), toLowerCase(b)) <= maxDistance

DistanceChargesAsStated ==
    ret.op = "transliterationAwareDistance"
    => ret.value = StatedDistance(toLowerCase(ret.str1), toLowerCase(ret.str2))

\* C22 as stated: for every pair of strings matchesTransliterationVariant(a, b,
\* maxDistance) is true exactly when a equals b case-insensitively, or one is a
\* substring of the other, or the distance is at most maxDistance.
VariantMatchIsEqualSubstringOrNear ==
    /\ ret.op = "matchesTransliterationVariant"
       => (ret.value = EqualSubstringOrNear(ret.str1, ret.str2, ret.maxDistance))
    /\ DistanceChargesAsStated

\* C22: matchesTransliterationVariant is false when a or b is empty; for non-empty
\* a and b it is true exactly when a equals b case-insensitively, or one is a
\* substring of the other case-insensitively, or the distance is at most
\* maxDistance; the distance charges 1 for insertion and deletion and 0, 0.3, 0.5
\* or 1 for substitution.
NonEmptyVariantMatchIsEqualSubstringOrNear ==
    /\ ret.op = "matchesTransliterationVariant"
       => ret.value = (/\ ret.str1 # <<>>
                       /\ ret.str2 # <<>>
                       /\ EqualSubstringOrNear(ret.str1, ret.str2, ret.maxDistance))
    /\ DistanceChargesAsStated

\* matchesTransliterationVariant('tas', 'tes', 0.3) is true by the distance alone.
VowelSwapMatchedAtThreshold ==
    /\ ret.op = "matchesTransliterationVariant"
    /\ ret.str1 = tas
    /\ ret.str2 = tes
    /\ ret.maxDistance = 3
    /\ ~includes(ret.str1, ret.str2) /\ ~includes(ret.str2, ret.str1)
    /\ ret.value = TRUE

\* The text of the last transliterateToAmharic call as it is looked up.
LookedUp == trim(toLowerCase(validateAndSanitizeInput(ret.englishText, MAX_INPUT_LENGTH).value))

\* The variants of the dictionary keys that satisfy Test.
VariantsOfKeys(Test(_)) ==
    {COMMON_NAMES[k][2] : k \in {k \in 1..Len(COMMON_NAMES) : Test(COMMON_NAMES[k][1])}}

ExactVariants == VariantsOfKeys(LAMBDA key : key = LookedUp)

PrefixOnlyVariants == VariantsOfKeys(LAMBDA key : startsWith(key, LookedUp)) \ ExactVariants

ContainsOnlyVariants ==
    VariantsOfKeys(LAMBDA key : \E i \in 0..(Len(LookedUp) - 1) :
                                    startsWith(key, substringFrom(LookedUp, i)))
    \ (ExactVariants \cup PrefixOnlyVariants)

\* 1 for an exact-match variant, 2 for a prefix match, 3 for a contains match.
MatchRank(variant) ==
    IF variant \in ExactVariants THEN 1
    ELSE IF variant \in PrefixOnlyVariants THEN 2
    ELSE 3

ClearCacheOnlyEmptiesCache ==
    ret'.op = "clearCache" => (cache' = <<>> /\ nameTrie' = nameTrie)

\* A transliterateToAmharic step with enableCache: false keeps the cache and reads
\* no entry of it.
UncachedCallKeepsCache ==
    (ret'.op = "transliterateToAmharic" /\ ~ret'.enableCache)
    => (cache' = cache /\ ~ret'.hit /\ lastHit' = lastHit)

\* No step changes a trie that has been built.
BuiltTrieStays == ~nameTrie.isNull => nameTrie' = nameTrie

\* C24: clearCache leaves the cache empty and changes nothing else; a
\* transliterateToAmharic call with enableCache: false neither reads nor writes the
\* cache; and the trie, once built, is never rebuilt or modified by a later call.
CallsKeepTheirFrame ==
    [][ClearCacheOnlyEmptiesCache /\ UncachedCallKeepsCache /\ BuiltTrieStays]_vars

\* transliterateToAmharic('mariam', {enableCache: false}) answered while the cache
\* held the entry of 'mariam:true'.
UncachedCallBesideCachedEntry ==
    /\ ret.op = "transliterateToAmharic"
    /\ ret.englishText = Str(mariam)
    /\ ret.includePartialMatches
    /\ ~ret.enableCache
    /\ CacheKey(mariam, TRUE) \in Keys(cache)
    /\ ~ret.hit
    /\ ret.ok
    /\ ret.value[1] = COMMON_NAMES[5][2]
    /\ nameTrie = BuiltTrie

\* Lowercase ASCII letters, digits and single spaces, no space at either end.
IsPlainWords(value) ==
    /\ \A i \in 1..Len(value) : value[i] \in (97..122) \cup (48..57) \cup {32}
    /\ \A i \in 1..(Len(value) - 1) : ~(value[i] = 32 /\ value[i + 1] = 32)
    /\ value # <<>> => (value[1] # 32 /\ value[Len(value)] # 32)

\* What one character contributes: its syllable, itself lowercased, or a separator.
Contribution(ch) ==
    IF ch \in DOMAIN AMHARIC_TO_ASCII THEN AMHARIC_TO_ASCII[ch]
    ELSE IF ch \in 97..122 \/ ch \in 48..57 THEN <<ch>>
    ELSE IF ch \in 65..90 THEN <<ch + 32>>
    ELSE <<32>>

RECURSIVE Contributions(_)
Contributions(input) ==
    IF input = <<>> THEN <<>> ELSE Contribution(Head(input)) \o Contributions(Tail(input))

\* C25: the result of romanizeAmharicToAscii consists of lowercase ASCII letters,
\* digits and single spaces with no space at either end; its words are those of the
\* contributions of the characters, where a table character contributes its
\* syllable, an ASCII letter or digit itself lowercased and every other character a
\* separator; and romanizing the result again returns it unchanged.
RomanizationIsPlainAndStable ==
    ret.op = "romanizeAmharicToAscii"
    => /\ IsPlainWords(ret.value)
       /\ splitWords(ret.value, <<>>, <<>>) = splitWords(Contributions(ret.input), <<>>, <<>>)
       /\ romanizeAmharicToAscii(ret.value) = ret.value

\* romanizeAmharicToAscii('A፡-ል') is 'a l': the letter lowercased, the two separators
\* one space, and the syllable of 'ል'.
SeparatorsBecameOneSpace ==
    /\ ret.op = "romanizeAmharicToAscii"
    /\ ret.input = <<65, 4961, 45, 4621>>
    /\ ret.value = <<97, 32, 108>>

\* The verdict of the last matchesName call had it been made with fuzzy: true and
\* the given maxDistance.
VerdictWithFuzzy(maxDistance) ==
    matchesName(ret.name, ret.query,
                [ret.options EXCEPT !.fuzzy = TRUE, !.maxDistance = maxDistance],
                <<>>, NullTrie).value

MatchedWithoutFuzzy ==
    ret.op = "matchesName" /\ ret.ok /\ ~ret.options.fuzzy /\ ret.value = TRUE

\* C26 as stated: every (name, query) pair that matches without fuzzy also matches
\* with fuzzy, the other options being the same.
FuzzyKeepsEveryMatch ==
    MatchedWithoutFuzzy => VerdictWithFuzzy(ret.options.maxDistance)

\* One of the name and the query contains the other and is more than 1 / 0.7 times
\* as long.
ContainedInMuchLonger ==
    /\ ~ret.options.wholeWord
    /\ includes(NormalizedName, NormalizedQuery) \/ includes(NormalizedQuery, NormalizedName)
    /\ ~AtLeast(Min(Len(NormalizedName), Len(NormalizedQuery)),
                Max(Len(NormalizedName), Len(NormalizedQuery)), 7, 10)

\* C26: a (name, query) pair that matches without fuzzy also matches with fuzzy and
\* any maxDistance, unless one of the two contains the other and the shorter is less
\* than 0.7 times as long as the longer.
FuzzyKeepsMatchOfSimilarLengths ==
    (MatchedWithoutFuzzy /\ ~ContainedInMuchLonger)
    => \A maxDistance \in 0..MaxDistance : VerdictWithFuzzy(maxDistance)

\* matchesName('xamanuelx', 'amanuel') matched without fuzzy by containment, the
\* lengths being 9 and 7.
ContainedSimilarLengthMatched ==
    /\ MatchedWithoutFuzzy
    /\ ret.name = Str(xamanuelx)
    /\ ret.query = Str(amanuel)
    /\ ret.options = DefaultMatchOptions
    /\ ~ContainedInMuchLonger
    /\ VerdictWithFuzzy(0)

\* The characters of the dictionary's keys and values.
DictionaryCharacters ==
    UNION {Elements(COMMON_NAMES[k][1]) \cup Elements(COMMON_NAMES[k][2]) :
              k \in 1..Len(COMMON_NAMES)}

\* The query of the last matchesName call is not empty and has no character in
\* common with the name or with a dictionary entry.
QuerySharesNoCharacter ==
    /\ NormalizedQuery # <<>>
    /\ Elements(NormalizedQuery) \cap (Elements(NormalizedName) \cup DictionaryCharacters) = {}

\* C27: with fuzzy: true or phonetic: true a name does not match a query that has no
\* character in common with the name or with any dictionary entry.
UnrelatedQueryNeverMatches ==
    (/\ ret.op = "matchesName"
     /\ ret.ok
     /\ ret.options.fuzzy \/ ret.options.phonetic
     /\ QuerySharesNoCharacter)
    => ret.value = FALSE

\* matchesName('Amanuel', 'qxz', {fuzzy: true}) answered true.
DictionaryNameMatchedUnrelatedQuery ==
    /\ ret.op = "matchesName"
    /\ ret.name = Str(Amanuel)
    /\ ret.query = Str(qxz)
    /\ ret.options = [DefaultMatchOptions EXCEPT !.fuzzy = TRUE]
    /\ QuerySharesNoCharacter
    /\ ret.value = TRUE

\* The last call was matchesName with default options of an Ethiopic name against a
\* Latin query of several words, none of which shares a character with the romanized
\* name, and no dictionary variant of the query is contained in the name.
UnrelatedWordsQuery ==
    /\ ret.op = "matchesName"
    /\ ret.ok
    /\ ret.options = DefaultMatchOptions
    /\ containsAmharic(NormalizedName)
    /\ ~containsAmharic(NormalizedQuery)
    /\ Len(splitWords(NormalizedQuery, <<>>, <<>>)) >= 2
    /\ \A word \in Elements(splitWords(NormalizedQuery, <<>>, <<>>)) :
           Elements(word) \cap Elements(romanizeAmharicToAscii(NormalizedName)) = {}
    /\ \A variant \in Elements(transliterateToAmharic(Str(NormalizedQuery), TRUE, TRUE,
                                                      <<>>, NullTrie).value) :
           ~includes(ret.name.chars, variant)

\* C28: with default options matchesName of an Ethiopic name against a multi-word
\* Latin query returns false when no query word shares a character with the
\* romanized name and no dictionary variant of the query is contained in the name,
\* whatever the length of the query words.
UnrelatedWordsNeverMatch == UnrelatedWordsQuery => ret.value = FALSE

\* matchesName('አማኑኤል ፀጋዬ', 'qx xq') answered true.
TwoLetterWordsMatched ==
    /\ UnrelatedWordsQuery
    /\ ret.name = Str(EthAmanuelTsegaye)
    /\ ret.query = Str(qxXq)
    /\ ret.value = TRUE

\* What the last call returns when no array was ever modified: the call on an empty
\* cache (C3 of the cache: a hit returns what the miss stored).
UnmodifiedValue ==
    CASE ret.op = "transliterateToAmharic" ->
             transliterateToAmharic(ret.englishText, ret.includePartialMatches,
                                    ret.enableCache, <<>>, NullTrie).value
      [] ret.op = "matchesName" ->
             matchesName(ret.name, ret.query, ret.options, <<>>, NullTrie).value
      [] ret.op = "expandSearchQuery" ->
             expandSearchQuery(ret.query, <<>>, NullTrie).value

\* C29: the array returned by transliterateToAmharic is independent of the cache: a
\* caller that modifies a returned array in place cannot change what a later
\* transliterateToAmharic, matchesName or expandSearchQuery call returns.
ReturnsIgnoreCallerModification ==
    (ret.op \in {"transliterateToAmharic", "matchesName", "expandSearchQuery"} /\ ret.ok)
        => ret.value = UnmodifiedValue

\* After a = transliterateToAmharic('amanuel'); a.push('ታደሰ') the call
\* matchesName('ታደሰ', 'amanuel') answered true.
PushedVariantMatched ==
    /\ MapHas(cache, CacheKey(amanuel, TRUE))
    /\ COMMON_NAMES[2][2] \in Elements(cache[MapIndex(cache, CacheKey(amanuel, TRUE))].value)
    /\ ret.op = "matchesName" /\ ret.ok
    /\ ret.name = Str(COMMON_NAMES[2][2]) /\ ret.query = Str(amanuel)
    /\ ret.value = TRUE
    /\ UnmodifiedValue = FALSE

\* The inner loop body of the word loop without its Levenshtein fallback.
wordMatchesWithoutFallback(nameWord, queryWord) ==
    LET namePrefix == substring(nameWord, 0, Len(queryWord))
    IN  \/ includes(nameWord, queryWord) \/ includes(queryWord, nameWord)
        \/ startsWith(nameWord, queryWord) \/ startsWith(queryWord, nameWord)
        \/ /\ Len(queryWord) >= 2
           /\ Len(nameWord) >= Len(queryWord)
           /\ matchesTransliterationVariant(namePrefix, queryWord, 20)

\* The last call compared a prefix with a word as the two stages do: two strings of
\* one length, which is two or more.
ComparedPrefixWithWord ==
    /\ ret.op = "matchesTransliterationVariant"
    /\ Len(ret.str1) = Len(ret.str2)
    /\ Len(ret.str1) >= 2

PlainDistance == levenshteinDistance(toLowerCase(ret.str1), toLowerCase(ret.str2))

\* C30: in both cross-script romanization stages the Levenshtein fallback on the
\* equal-length prefix never decides: when levenshteinDistance(prefix, word) <= 2,
\* matchesTransliterationVariant(prefix, word, 2.0) is true, and when it is <= 1,
\* matchesTransliterationVariant(prefix, word, 1.5) is true, because
\* transliterationAwareDistance never exceeds levenshteinDistance on the lowercased
\* strings; so the word loop gives the same answer without the fallback.
FallbackNeverDecides ==
    /\ (ComparedPrefixWithWord /\ ret.maxDistance = 20 /\ PlainDistance <= 2) => ret.value
    /\ (ComparedPrefixWithWord /\ ret.maxDistance = 15 /\ PlainDistance <= 1) => ret.value
    /\ ret.op = "transliterationAwareDistance" => ret.value <= 10 * PlainDistance
    /\ ret.op = "matchesTransliterationVariant" =>
           wordMatches(ret.str1, ret.str2) = wordMatchesWithoutFallback(ret.str1, ret.str2)

\* matchesTransliterationVariant('tsxy', 'tseg', 2.0) answered true: two plain
\* substitutions, neither string inside the other.
TwoSubstitutionsMatchedAtThreshold ==
    /\ ComparedPrefixWithWord
    /\ ret.str1 = tsxy /\ ret.str2 = tseg /\ ret.maxDistance = 20
    /\ PlainDistance = 2
    /\ ~includes(ret.str1, ret.str2) /\ ~includes(ret.str2, ret.str1)
    /\ ret.value = TRUE

====
